---- MODULE Spec2Model ----
(***************************************************************************)
(* A model of the ALX Polly poll/vote handlers: the validation helpers of  *)
(* lib/validation.ts, the gates and the rate limiter of lib/security.ts,   *)
(* and the server actions of app/lib/actions/poll-actions.ts (the          *)
(* incoming side of the file's merge markers, the side that uses the       *)
(* helpers), run by concurrent invocations that interleave at their await  *)
(* points.                                                                 *)
(*                                                                         *)
(* Strings are sequences of one-character strings, so that trimming and    *)
(* the sanitizer's replacements are computed, not assumed.                 *)
(*                                                                         *)
(* The data store is the polls and votes tables with equality filters and  *)
(* no constraint between them; in Spec the store and the identity provider *)
(* answer every call (no transport failure).                               *)
(***************************************************************************)
EXTENDS Integers, Sequences, FiniteSets, TLC

(* ------------------------------ bounds --------------------------------- *)

\* Concurrent invocations (request slots).
NumProcs == 2
\* Polls the store ever allocates an id for.
MaxPolls == 2
\* Invocations started in one behaviour.
MaxCalls == 3
MaxSeqCalls == 4
\* createPoll invocations in one behaviour of SpecCreate.
MaxCreateCalls == 11
\* Invocations in one behaviour of SpecVote.
MaxVoteCalls == 6
\* Invocations in one behaviour of SpecAuth.
MaxAuthCalls == 6
\* Options in the data given to validateCreatePoll called on its own (the
\* data at the limit of the number of options apart).
MaxInputOptions == 3
\* Addresses and commas in the admin list given to requireAdmin called on
\* its own.
MaxEnvLen == 3
\* Clock ticks in one behaviour.
MaxTicks == 4
\* Direct checkRateLimit calls in one behaviour, their largest limit and
\* their longest window (ms).
MaxRlCalls == 6
MaxLimit == 3
MaxWindow == 2

(* --------------------------- program constants ------------------------- *)

MaxQuestionLen == 500
MaxOptionLen == 200
MinOptions == 2
MaxOptions == 10
VoteMaxRequests == 5
VoteWindowMs == 60000
CreateMaxRequests == 10
CreateWindowMs == 300000
\* "Login attempts: 5 per 5 minutes per email", "Registration attempts: 3
\* per 10 minutes per email"
LoginMaxRequests == 5
RegisterMaxRequests == 3

(* ------------------------------ values --------------------------------- *)

NULL == "null"
Procs == 1..NumProcs
\* Identities the provider knows; a1's email is on the admin list.
Users == {"u1", "a1"}
Sessions == Users \cup {NULL}
Email(u) == IF u = "a1" THEN "a1@x" ELSE "u1@x"
\* process.env.ADMIN_EMAIL when the handlers run: the string "a1@x". The
\* string of an environment variable is a sequence of addresses and commas;
\* an unset variable has set = FALSE.
ADMIN_EMAIL == [set |-> TRUE, value |-> <<"a1@x">>]

\* Poll ids: 1..MaxPolls stand for well-formed UUID strings, BadId for a
\* string that is not a UUID.
BadId == 0
PollIds == 1..MaxPolls
IdInputs == PollIds \cup {BadId}
OptionIndexInputs == {-1, 0, 1, 2}

(* ------------------------------ strings -------------------------------- *)

Uppers == <<"A","B","C","D","E","F","G","H","I","J","K","L","M",
            "N","O","P","Q","R","S","T","U","V","W","X","Y","Z">>
Lowers == <<"a","b","c","d","e","f","g","h","i","j","k","l","m",
            "n","o","p","q","r","s","t","u","v","w","x","y","z">>
Digits == {"0","1","2","3","4","5","6","7","8","9"}

Lower(c) ==
  IF \E i \in 1..26 : Uppers[i] = c
  THEN Lowers[CHOOSE i \in 1..26 : Uppers[i] = c]
  ELSE c

IsLetter(c) == \E i \in 1..26 : Lowers[i] = Lower(c)
\* \w of a JavaScript regular expression
IsWordChar(c) == IsLetter(c) \/ c \in Digits \/ c = "_"
IsSpace(c) == c = " "

RECURSIVE TrimStart(_)
TrimStart(s) ==
  IF s # <<>> /\ IsSpace(Head(s)) THEN TrimStart(Tail(s)) ELSE s

RECURSIVE TrimEnd(_)
TrimEnd(s) ==
  IF s # <<>> /\ IsSpace(s[Len(s)])
  THEN TrimEnd(SubSeq(s, 1, Len(s) - 1))
  ELSE s

\* String.prototype.trim
Trim(s) == TrimEnd(TrimStart(s))

\* replace(/[<>]/g, '')
StripAngles(s) == SelectSeq(s, LAMBDA c : c \notin {"<", ">"})

JsProtocol == <<"j","a","v","a","s","c","r","i","p","t",":">>

\* whether s, lower-cased, starts with pat
StartsWithCI(s, pat) ==
  /\ Len(s) >= Len(pat)
  /\ \A i \in 1..Len(pat) : Lower(s[i]) = pat[i]

\* replace(/javascript:/gi, ''): one left-to-right pass, non-overlapping
RECURSIVE StripJsProtocol(_)
StripJsProtocol(s) ==
  IF s = <<>> THEN <<>>
  ELSE IF StartsWithCI(s, JsProtocol)
       THEN StripJsProtocol(SubSeq(s, Len(JsProtocol) + 1, Len(s)))
       ELSE <<Head(s)>> \o StripJsProtocol(Tail(s))

\* length of the longest prefix of s made of word characters
RECURSIVE WordRun(_)
WordRun(s) ==
  IF s # <<>> /\ IsWordChar(Head(s)) THEN 1 + WordRun(Tail(s)) ELSE 0

\* length of the match of /on\w+=/i at the start of s, 0 when there is none.
\* \w+ is greedy and "=" is no word character, so the match is "on", the
\* whole run of word characters after it (at least one), and "=".
HandlerMatch(s) ==
  IF StartsWithCI(s, <<"o", "n">>)
  THEN LET rest == SubSeq(s, 3, Len(s))
           k == WordRun(rest)
       IN IF k >= 1 /\ Len(rest) > k /\ rest[k + 1] = "=" THEN 2 + k + 1 ELSE 0
  ELSE 0

\* replace(/on\w+=/gi, '')
RECURSIVE StripHandlers(_)
StripHandlers(s) ==
  IF s = <<>> THEN <<>>
  ELSE LET m == HandlerMatch(s)
       IN IF m > 0
          THEN StripHandlers(SubSeq(s, m + 1, Len(s)))
          ELSE <<Head(s)>> \o StripHandlers(Tail(s))

sanitizeString(input) == StripHandlers(StripJsProtocol(StripAngles(Trim(input))))

sanitizePollData(data) ==
  [question |-> sanitizeString(data.question),
   options |-> [i \in 1..Len(data.options) |-> sanitizeString(data.options[i])]]

(* ----------------------------- validation ------------------------------ *)

\* no fields (sanitizedData of a failed validation is undefined)
NoForm == [question |-> <<>>, options |-> <<>>]

\* pollIdSchema: z.string().uuid(...)
validatePollId(id) ==
  IF id # BadId
  THEN [isValid |-> TRUE, error |-> NULL]
  ELSE [isValid |-> FALSE, error |-> "Invalid poll ID format"]

\* index of the first option the element schema rejects, 0 when there is none
FirstBadOption(options) ==
  LET bad == {i \in 1..Len(options) :
                Len(options[i]) < 1 \/ Len(options[i]) > MaxOptionLen}
  IN IF bad = {} THEN 0 ELSE CHOOSE i \in bad : \A j \in bad : i <= j

\* createPollSchema.parse: the message of the first issue, NULL when the
\* data parses. Issues come in the order question (min, max), options
\* (array min, array max), then the elements in order (min, max).
createPollSchemaError(d) ==
  IF Len(d.question) < 1 THEN "Question is required"
  ELSE IF Len(d.question) > MaxQuestionLen
       THEN "Question must be less than 500 characters"
  ELSE IF Len(d.options) < MinOptions THEN "At least 2 options are required"
  ELSE IF Len(d.options) > MaxOptions THEN "Maximum 10 options allowed"
  ELSE LET i == FirstBadOption(d.options)
       IN IF i = 0 THEN NULL
          ELSE IF Len(d.options[i]) < 1 THEN "Option cannot be empty"
          ELSE "Option must be less than 200 characters"

validateCreatePoll(data) ==
  LET sanitized == sanitizePollData(data)
      err == createPollSchemaError(sanitized)
  IN [isValid |-> err = NULL, error |-> err,
      sanitizedData |-> IF err = NULL THEN sanitized ELSE NoForm]

\* voteSchema: pollId a uuid, optionIndex an integer >= 0
validateVote(pollId, optionIndex) ==
  IF pollId = BadId THEN [isValid |-> FALSE, error |-> "Invalid poll ID format"]
  ELSE IF optionIndex < 0 THEN [isValid |-> FALSE, error |-> "Invalid option index"]
  ELSE [isValid |-> TRUE, error |-> NULL]

\* formData.getAll("options").filter(Boolean)
FilterBoolean(options) == SelectSeq(options, LAMBDA o : o # <<>>)

ReadForm(formData) ==
  [question |-> formData.question, options |-> FilterBoolean(formData.options)]

(* ------------------------------ security ------------------------------- *)

\* supabase.auth.getUser() of a request whose session is `session`
requireAuth(session) ==
  IF session = NULL
  THEN [success |-> FALSE, error |-> "Authentication required", user |-> NULL]
  ELSE [success |-> TRUE, error |-> NULL, user |-> session]

\* from('polls').select(...).eq('id', id).single(): the rows with that id
SelectPoll(table, id) == IF id \in DOMAIN table THEN {table[id]} ELSE {}

\* requirePollOwnership without the comparison of poll.user_id with user.id
requirePollOwnership_NoOwnerCheck(pollId, session, table) ==
  LET idValidation == validatePollId(pollId)
      authResult == requireAuth(session)
      rows == SelectPoll(table, pollId)
  IN IF ~idValidation.isValid
     THEN [success |-> FALSE, error |-> idValidation.error, user |-> NULL]
     ELSE IF ~authResult.success THEN authResult
     ELSE IF rows = {}
          THEN [success |-> FALSE, error |-> "Poll not found", user |-> NULL]
     ELSE [success |-> TRUE, error |-> NULL, user |-> authResult.user]

\* requirePollOwnership reporting a poll that does not exist as a denial
requirePollOwnership_DenyAbsent(pollId, session, table) ==
  LET idValidation == validatePollId(pollId)
      authResult == requireAuth(session)
      rows == SelectPoll(table, pollId)
  IN IF ~idValidation.isValid
     THEN [success |-> FALSE, error |-> idValidation.error, user |-> NULL]
     ELSE IF ~authResult.success THEN authResult
     ELSE IF rows = {} \/ \E poll \in rows : poll.user_id # authResult.user
          THEN [success |-> FALSE, error |-> "Access denied", user |-> NULL]
     ELSE [success |-> TRUE, error |-> NULL, user |-> authResult.user]

\* requirePollOwnership letting the admin a1 through as well as the owner
requirePollOwnership_AdminPasses(pollId, session, table) ==
  LET idValidation == validatePollId(pollId)
      authResult == requireAuth(session)
      rows == SelectPoll(table, pollId)
  IN IF ~idValidation.isValid
     THEN [success |-> FALSE, error |-> idValidation.error, user |-> NULL]
     ELSE IF ~authResult.success THEN authResult
     ELSE IF rows = {}
          THEN [success |-> FALSE, error |-> "Poll not found", user |-> NULL]
     ELSE IF authResult.user # "a1" /\ \E poll \in rows : poll.user_id # authResult.user
          THEN [success |-> FALSE, error |-> "Access denied", user |-> NULL]
     ELSE [success |-> TRUE, error |-> NULL, user |-> authResult.user]

requirePollOwnership(pollId, session, table) ==
  LET idValidation == validatePollId(pollId)
      authResult == requireAuth(session)
      rows == SelectPoll(table, pollId)
  IN IF ~idValidation.isValid
     THEN [success |-> FALSE, error |-> idValidation.error, user |-> NULL]
     ELSE IF ~authResult.success THEN authResult
     ELSE IF rows = {}
          THEN [success |-> FALSE, error |-> "Poll not found", user |-> NULL]
     ELSE IF \E poll \in rows : poll.user_id # authResult.user
          THEN [success |-> FALSE, error |-> "Access denied", user |-> NULL]
     ELSE [success |-> TRUE, error |-> NULL, user |-> authResult.user]

\* split(','): the pieces of s between its commas ("" gives [""])
RECURSIVE Split(_)
Split(s) ==
  LET commas == {i \in 1..Len(s) : s[i] = ","}
  IN IF commas = {} THEN <<s>>
     ELSE LET i == CHOOSE c \in commas : \A d \in commas : c <= d
          IN <<SubSeq(s, 1, i - 1)>> \o Split(SubSeq(s, i + 1, Len(s)))

\* process.env.ADMIN_EMAIL?.split(',') || []
adminEmails(env) == IF env.set THEN Split(env.value) ELSE <<>>

\* requireAdmin letting every signed-in caller through when the list is empty
requireAdminEnv_OpenWhenEmpty(env, session) ==
  LET authResult == requireAuth(session)
      listed == \E i \in 1..Len(adminEmails(env)) :
                  adminEmails(env)[i] = <<Email(authResult.user)>>
  IN IF ~authResult.success THEN authResult
     ELSE IF adminEmails(env) # <<>> /\ ~listed
          THEN [success |-> FALSE, error |-> "Admin access required", user |-> NULL]
     ELSE [success |-> TRUE, error |-> NULL, user |-> authResult.user]

\* requireAdmin() with process.env.ADMIN_EMAIL = env
requireAdminEnv(env, session) ==
  LET authResult == requireAuth(session)
  IN IF ~authResult.success THEN authResult
     ELSE IF ~(\E i \in 1..Len(adminEmails(env)) :
                 adminEmails(env)[i] = <<Email(authResult.user)>>)
          THEN [success |-> FALSE, error |-> "Admin access required", user |-> NULL]
     ELSE [success |-> TRUE, error |-> NULL, user |-> authResult.user]

requireAdmin(session) == requireAdminEnv(ADMIN_EMAIL, session)

\* checkRateLimit with the limit test off by one (count > maxRequests)
checkRateLimit_OffByOne(store, key, maxRequests, windowMs, t) ==
  IF key \notin DOMAIN store \/ t > store[key].resetTime
  THEN [allowed |-> TRUE,
        store |-> [k \in DOMAIN store \cup {key} |->
                     IF k = key THEN [count |-> 1, resetTime |-> t + windowMs]
                     ELSE store[k]]]
  ELSE IF store[key].count > maxRequests
       THEN [allowed |-> FALSE, store |-> store]
  ELSE [allowed |-> TRUE,
        store |-> [store EXCEPT ![key].count = @ + 1]]

\* checkRateLimit with a sliding window: every allowed call moves resetTime
checkRateLimit_Sliding(store, key, maxRequests, windowMs, t) ==
  IF key \notin DOMAIN store \/ t > store[key].resetTime
  THEN [allowed |-> TRUE,
        store |-> [k \in DOMAIN store \cup {key} |->
                     IF k = key THEN [count |-> 1, resetTime |-> t + windowMs]
                     ELSE store[k]]]
  ELSE IF store[key].count >= maxRequests
       THEN [allowed |-> FALSE, store |-> store]
  ELSE [allowed |-> TRUE,
        store |-> [store EXCEPT ![key] = [count |-> @.count + 1,
                                          resetTime |-> t + windowMs]]]

\* checkRateLimit losing the increment of a call it allows
checkRateLimit_LostIncrement(store, key, maxRequests, windowMs, t) ==
  IF key \notin DOMAIN store \/ t > store[key].resetTime
  THEN [allowed |-> TRUE,
        store |-> [k \in DOMAIN store \cup {key} |->
                     IF k = key THEN [count |-> 1, resetTime |-> t + windowMs]
                     ELSE store[k]]]
  ELSE IF store[key].count >= maxRequests
       THEN [allowed |-> FALSE, store |-> store]
  ELSE [allowed |-> TRUE, store |-> store]

\* checkRateLimit: the value returned and the store it leaves
checkRateLimit(store, key, maxRequests, windowMs, t) ==
  IF key \notin DOMAIN store \/ t > store[key].resetTime
  THEN [allowed |-> TRUE,
        store |-> [k \in DOMAIN store \cup {key} |->
                     IF k = key THEN [count |-> 1, resetTime |-> t + windowMs]
                     ELSE store[k]]]
  ELSE IF store[key].count >= maxRequests
       THEN [allowed |-> FALSE, store |-> store]
  ELSE [allowed |-> TRUE,
        store |-> [store EXCEPT ![key].count = @ + 1]]

(* ------------------------------- inputs -------------------------------- *)

QColor == <<"C","o","l","o","r","?">>
Red == <<"R","e","d">>
Blue == <<"B","l","u","e">>
Green == <<"G","r","e","e","n">>

\* The form data a caller may submit to createPoll and updatePoll.
FormInputs ==
  { [question |-> QColor, options |-> <<Red, Blue>>],
    [question |-> QColor, options |-> <<Red, Blue, Green>>],
    [question |-> <<" ">> \o QColor, options |-> <<Red, <<>>, <<"<">> \o Blue>>],
    [question |-> QColor, options |-> <<Red>>] }

(* ------------------------------- state --------------------------------- *)

VARIABLES
  polls,           \* the polls table: id -> [user_id, question, options]
  votes,           \* the votes table, a bag: vote row -> number of such rows
  nextId,          \* ids the store has allocated so far
  rateLimitStore,  \* key -> [count, resetTime]
  now,             \* Date.now()
  ticks,           \* clock ticks so far
  calls,           \* invocations that may still start
  pc,              \* where each invocation stands
  pollId,          \* its poll id argument
  optionIndex,     \* its optionIndex argument
  session,         \* the identity its request carries, NULL when anonymous
  formData,        \* the sanitized form data it is about to store
  passed,          \* the stages it has passed: "rate", "validate", "authorize",
                   \* "bounds", and "removed" once it has removed votes
  wrote,           \* whether it has issued an insert, update or delete
  ret,             \* what the invocation that returned last resolved to (and,
                   \* of a createPoll that returned early, the fields it
                   \* read), or that it threw (rejected)
  rlArgs,          \* maxRequests and windowMs of the direct checkRateLimit calls
  rlLog,           \* per key, the checkRateLimit calls of the current run of calls
  input,           \* the data given to a validator or gate called on its own
  output,          \* what it returned
  authLog          \* per action and email: the calls made (n) and the calls
                   \* that reached the identity provider (idp)

vars == <<polls, votes, nextId, rateLimitStore, now, ticks, calls, pc, pollId,
          optionIndex, session, formData, passed, wrote, ret, rlArgs, rlLog,
          input, output, authLog>>

tables == <<polls, votes, nextId>>
locals == <<pollId, optionIndex, session, formData>>
clock == <<now, ticks>>
\* what the poll handlers never touch
direct == <<rlArgs, input, output, authLog>>

EmptyFn == [x \in {} |-> 0]
\* output before any validator was called on its own
NoOutput == [isValid |-> FALSE, error |-> NULL, sanitizedData |-> NoForm]
\* ret before any invocation has returned
NoRet == [op |-> NULL, id |-> BadId, session |-> NULL, error |-> NULL, data |-> {},
          form |-> NoForm, rejected |-> FALSE, revalidated |-> NULL]

VoteKey(id) == <<"vote", id>>
CreatePollKey(ip) == <<"create_poll", ip>>
\* The one client address of the model's callers.
ClientIP == 1

\* a vote row that records no voter
VoteRow_NoVoter(id, u, i) == [poll_id |-> id, user_id |-> NULL, option_index |-> i]

\* the row submitVote inserts: user_id is user?.id ?? null
VoteRow(id, u, i) == [poll_id |-> id, user_id |-> u, option_index |-> i]

\* rows of the votes table with poll_id = id (and user_id = u)
VotesOfPoll(table, id) == {v \in DOMAIN table : v.poll_id = id}
VotesOf(table, id, u) == {v \in DOMAIN table : v.poll_id = id /\ v.user_id = u}
CountVotes(table, rows) ==
  LET RECURSIVE Sum(_)
      Sum(S) == IF S = {} THEN 0
                ELSE LET v == CHOOSE x \in S : TRUE
                     IN table[v] + Sum(S \ {v})
  IN Sum(rows)

\* an insert refused when the voter already has a vote on the poll
InsertVote_Unique(table, row) ==
  IF row.user_id # NULL
     /\ \E v \in DOMAIN table : v.poll_id = row.poll_id /\ v.user_id = row.user_id
  THEN table
  ELSE IF row \in DOMAIN table
       THEN [table EXCEPT ![row] = @ + 1]
  ELSE [v \in DOMAIN table \cup {row} |-> IF v = row THEN 1 ELSE table[v]]

\* an insert that replaces the rows the voter already has on the poll
InsertVote_Upsert(table, row) ==
  LET kept == {v \in DOMAIN table :
                 ~(v.poll_id = row.poll_id /\ v.user_id = row.user_id)}
  IN [v \in kept \cup {row} |-> IF v = row THEN 1 ELSE table[v]]

\* from("votes").insert([row])
InsertVote(table, row) ==
  IF row \in DOMAIN table
  THEN [table EXCEPT ![row] = @ + 1]
  ELSE [v \in DOMAIN table \cup {row} |-> IF v = row THEN 1 ELSE table[v]]

\* from("votes").delete().eq("poll_id", id)
DeleteVotes(table, id) == [v \in DOMAIN table \ VotesOfPoll(table, id) |-> table[v]]

\* from("polls").delete().eq("id", id)
DeletePollRow(table, id) == [k \in DOMAIN table \ {id} |-> table[k]]

\* from("polls").delete().eq("id", id).eq("user_id", u)
DeleteOwnPollRow(table, id, u) ==
  [k \in {x \in DOMAIN table : ~(x = id /\ table[x].user_id = u)} |-> table[k]]

\* from("polls").update({question, options}).eq("id", id).eq("user_id", u)
UpdateOwnPollRow(table, id, u, data) ==
  [k \in DOMAIN table |->
     IF k = id /\ table[k].user_id = u
     THEN [table[k] EXCEPT !.question = data.question, !.options = data.options]
     ELSE table[k]]

\* from("polls").insert([{user_id, question, options}]) under a fresh id
InsertPoll(table, id, u, data) ==
  [k \in DOMAIN table \cup {id} |->
     IF k = id THEN [user_id |-> u, question |-> data.question, options |-> data.options]
     ELSE table[k]]

\* The state of a freshly started server with empty tables, about to serve
\* `budget` invocations.
Start(budget) ==
  /\ polls = EmptyFn
  /\ votes = EmptyFn
  /\ nextId = 0
  /\ rateLimitStore = EmptyFn
  /\ now = 0
  /\ ticks = 0
  /\ calls = budget
  /\ pc = [p \in Procs |-> "idle"]
  /\ pollId = [p \in Procs |-> BadId]
  /\ optionIndex = [p \in Procs |-> 0]
  /\ session = [p \in Procs |-> NULL]
  /\ formData = [p \in Procs |-> NoForm]
  /\ passed = [p \in Procs |-> {}]
  /\ wrote = [p \in Procs |-> FALSE]
  /\ ret = NoRet
  /\ rlLog = EmptyFn
  /\ input = NoForm
  /\ output = NoOutput
  /\ authLog = EmptyFn

Init ==
  /\ Start(MaxCalls)
  /\ rlArgs = [maxRequests |-> 1, windowMs |-> 1]

\* The invocation in slot p resolves to r.
Resolve(p, r) ==
  /\ pc' = [pc EXCEPT ![p] = "idle"]
  /\ pollId' = [pollId EXCEPT ![p] = BadId]
  /\ optionIndex' = [optionIndex EXCEPT ![p] = 0]
  /\ session' = [session EXCEPT ![p] = NULL]
  /\ formData' = [formData EXCEPT ![p] = NoForm]
  /\ passed' = [passed EXCEPT ![p] = {}]
  /\ wrote' = [wrote EXCEPT ![p] = FALSE]
  /\ ret' = r

\* The invocation of handler op in slot p, called with poll id `id` by the
\* request of identity u, resolves to {error: e} (data: the rows returned).
Return(p, op, id, u, e, rows) ==
  Resolve(p, [op |-> op, id |-> id, session |-> u, error |-> e, data |-> rows,
              form |-> NoForm, rejected |-> FALSE, revalidated |-> NULL])

\* The invocation throws: its promise is rejected, there is no result object.
Reject(p, op, id, u) ==
  Resolve(p, [op |-> op, id |-> id, session |-> u, error |-> NULL, data |-> {},
              form |-> NoForm, rejected |-> TRUE, revalidated |-> NULL])

\* The createPoll invocation in slot p, called with the fields `form` by the
\* request of identity u, resolves to {error: e}.
ReturnCreatePoll(p, u, form, e) ==
  Resolve(p, [op |-> "createPoll", id |-> BadId, session |-> u, error |-> e,
              data |-> {}, form |-> form, rejected |-> FALSE, revalidated |-> NULL])

\* The invocation in slot p goes on to step `to`, having passed `stages`.
Goto(p, to, id, opt, u, form, stages) ==
  /\ pc' = [pc EXCEPT ![p] = to]
  /\ pollId' = [pollId EXCEPT ![p] = id]
  /\ optionIndex' = [optionIndex EXCEPT ![p] = opt]
  /\ session' = [session EXCEPT ![p] = u]
  /\ formData' = [formData EXCEPT ![p] = form]
  /\ passed' = [passed EXCEPT ![p] = @ \cup stages]
  /\ UNCHANGED ret

\* A new invocation starts; it takes the first idle slot.
Begin(p) ==
  /\ pc[p] = "idle"
  /\ \A q \in Procs : q < p => pc[q] # "idle"
  /\ calls > 0
  /\ calls' = calls - 1

\* rlLog[key] follows the calls made for key by the clock alone: the time
\* of the first call of the current run of calls (a run ends once more
\* than the window has passed since its first call), how many calls the
\* run has had, what the last call returned, and how many runs there were.
LogCall(log, key, windowMs, t, result) ==
  LET fresh == key \notin DOMAIN log \/ t > log[key].first + windowMs
      runs == IF key \in DOMAIN log THEN log[key].runs ELSE 0
      entry == IF fresh
               THEN [first |-> t, n |-> 1, last |-> result, runs |-> runs + 1]
               ELSE [first |-> log[key].first, n |-> log[key].n + 1,
                     last |-> result, runs |-> runs]
  IN [k \in DOMAIN log \cup {key} |-> IF k = key THEN entry ELSE log[k]]

(* ----------------------------- sanitizeError --------------------------- *)

\* process.env.NODE_ENV
NODE_ENV == "production"

\* The error .single() reports when the query matches no row or several.
NoRowsError == "JSON object requested, multiple (or no) rows returned"

\* Messages the store reports for a violated constraint.
DuplicateKeyError == "duplicate key value violates unique constraint"
ForeignKeyError == "insert or update on table violates foreign key constraint"

\* error.message.includes(needle), for the messages of the model
Includes(message, needle) ==
  <<message, needle>> \in {<<DuplicateKeyError, "duplicate key">>,
                           <<ForeignKeyError, "foreign key">>}

\* sanitizeError(error) of an error object whose message is `message`
\* (NULL: it has none)
sanitizeError(message) ==
  IF NODE_ENV = "development"
  THEN (IF message = NULL THEN "An error occurred" ELSE message)
  ELSE IF Includes(message, "duplicate key") THEN "This item already exists"
  ELSE IF Includes(message, "foreign key") THEN "Invalid reference"
  ELSE IF Includes(message, "not found") THEN "Resource not found"
  ELSE "An error occurred. Please try again."

\* What a failing call may throw: an object with a message, an object
\* without one, and null or undefined.
ErrorObject(message) == [nullish |-> FALSE, message |-> message]
Nullish == [nullish |-> TRUE, message |-> NULL]
ThrownValues == {ErrorObject("fetch failed"), ErrorObject(NULL), Nullish}

\* sanitizeError(error) throws a TypeError when error is null or undefined:
\* both branches read error.message first.
sanitizeErrorThrows(error) == error.nullish

\* catch (error) { return { error: sanitizeError(error) } }
Catch(p, op, id, u, error) ==
  IF sanitizeErrorThrows(error)
  THEN Reject(p, op, id, u)
  ELSE Return(p, op, id, u, sanitizeError(error.message), {})

\* a write whose handler signals stale caches whatever the store answered
writeResult_RevalidateAlways(error, path) ==
  IF error # NULL
  THEN [error |-> sanitizeError(error), revalidated |-> path]
  ELSE [error |-> NULL, revalidated |-> path]

\* if (error) return { error: sanitizeError(error) };
\* revalidatePath(path); return { error: null };
\* for a write the store answered with `error` (NULL: none): what the
\* handler returns and the path it revalidates (NULL: none).
writeResult(error, path) ==
  IF error # NULL
  THEN [error |-> sanitizeError(error), revalidated |-> NULL]
  ELSE [error |-> NULL, revalidated |-> path]

\* The invocation in slot p returns after its write, which the store
\* answered with `error`.
ReturnWrite(p, op, id, u, error, path) ==
  LET r == writeResult(error, path)
  IN Resolve(p, [op |-> op, id |-> id, session |-> u, error |-> r.error,
                 data |-> {}, form |-> NoForm, rejected |-> FALSE,
                 revalidated |-> r.revalidated])

(* ------------------------------ createPoll ----------------------------- *)

\* createPoll not looking at what checkRateLimit returned
createPollGate_IgnoreRate(allowed, authResult, validation) ==
  IF ~authResult.success THEN authResult.error
  ELSE IF ~validation.isValid THEN validation.error
  ELSE NULL

\* createPoll going on to the insert whatever validateCreatePoll said
createPollGate_SkipValidation(allowed, authResult, validation) ==
  IF ~allowed THEN "Too many requests. Please try again later."
  ELSE IF ~authResult.success THEN authResult.error
  ELSE NULL

\* createPoll validating the fields before it asks who the caller is
createPollGate_ValidateFirst(allowed, authResult, validation) ==
  IF ~allowed THEN "Too many requests. Please try again later."
  ELSE IF ~validation.isValid THEN validation.error
  ELSE IF ~authResult.success THEN authResult.error
  ELSE NULL

\* The early returns of createPoll: the error it returns before the insert,
\* NULL when it goes on to the insert.
createPollGate(allowed, authResult, validation) ==
  IF ~allowed THEN "Too many requests. Please try again later."
  ELSE IF ~authResult.success THEN authResult.error
  ELSE IF ~validation.isValid THEN validation.error
  ELSE NULL

\* polls being inserted by invocations that have not yet reached the store
PendingInserts == Cardinality({q \in Procs : pc[q] = "cp_insert"})

CreatePollCall(p, u, form) ==
  /\ Begin(p)
  /\ LET rl == checkRateLimit(rateLimitStore, CreatePollKey(ClientIP),
                              CreateMaxRequests, CreateWindowMs, now)
         authResult == requireAuth(u)
         validation == validateCreatePoll(ReadForm(form))
         e == createPollGate(rl.allowed, authResult, validation)
         stages == (IF rl.allowed THEN {"rate"} ELSE {})
                   \cup (IF authResult.success THEN {"authorize"} ELSE {})
                   \cup (IF validation.isValid THEN {"validate"} ELSE {})
     IN /\ rateLimitStore' = rl.store
        /\ rlLog' = LogCall(rlLog, CreatePollKey(ClientIP), CreateWindowMs, now,
                            rl.allowed)
        /\ IF e # NULL
           THEN ReturnCreatePoll(p, u, ReadForm(form), e)
           ELSE /\ nextId + PendingInserts < MaxPolls
                /\ Goto(p, "cp_insert", BadId, 0, u, validation.sanitizedData, stages)
                /\ UNCHANGED wrote
  /\ UNCHANGED <<tables, clock, direct>>

CreatePollInsert(p) ==
  /\ pc[p] = "cp_insert"
  /\ polls' = InsertPoll(polls, nextId + 1, session[p], formData[p])
  /\ nextId' = nextId + 1
  /\ ReturnWrite(p, "createPoll", BadId, session[p], NULL, "/polls")
  /\ UNCHANGED <<votes, rateLimitStore, clock, direct, rlLog, calls>>

(* ------------------------------ submitVote ----------------------------- *)

\* submitVote going on when the rate check refuses
submitVoteGate_IgnoreRate(allowed, validation) ==
  IF ~validation.isValid THEN validation.error ELSE NULL

\* The early returns of submitVote before it reads the poll.
submitVoteGate(allowed, validation) ==
  IF ~allowed THEN "Too many votes. Please try again later."
  ELSE IF ~validation.isValid THEN validation.error
  ELSE NULL

SubmitVoteCall(p, id, opt, u) ==
  /\ Begin(p)
  /\ LET rl == checkRateLimit(rateLimitStore, VoteKey(id),
                              VoteMaxRequests, VoteWindowMs, now)
         validation == validateVote(id, opt)
         e == submitVoteGate(rl.allowed, validation)
         stages == (IF rl.allowed THEN {"rate"} ELSE {})
                   \cup (IF validation.isValid THEN {"validate"} ELSE {})
     IN /\ rateLimitStore' = rl.store
        /\ rlLog' = LogCall(rlLog, VoteKey(id), VoteWindowMs, now, rl.allowed)
        /\ IF e # NULL
           THEN Return(p, "submitVote", id, u, e, {})
           ELSE /\ Goto(p, "sv_poll", id, opt, u, NoForm, stages)
                /\ UNCHANGED wrote
  /\ UNCHANGED <<tables, clock, direct>>

\* the bounds check letting the index len(options) through
submitVoteBounds_OffByOne(rows, opt) ==
  IF rows = {} THEN "Poll not found"
  ELSE IF \E poll \in rows : opt < 0 \/ opt > Len(poll.options)
       THEN "Invalid option selected"
  ELSE NULL

\* The poll lookup and the bounds check on what it returned: the error
\* returned, NULL when the index is one of the poll's options.
submitVoteBounds(rows, opt) ==
  IF rows = {} THEN "Poll not found"
  ELSE IF \E poll \in rows : opt < 0 \/ opt >= Len(poll.options)
       THEN "Invalid option selected"
  ELSE NULL

\* select("options") of the poll, the bounds check, and auth.getUser()
SubmitVotePoll(p) ==
  /\ pc[p] = "sv_poll"
  /\ LET rows == SelectPoll(polls, pollId[p])
         e == submitVoteBounds(rows, optionIndex[p])
         inBounds == \E poll \in rows :
                       optionIndex[p] >= 0 /\ optionIndex[p] < Len(poll.options)
     IN IF e # NULL
        THEN Return(p, "submitVote", pollId[p], session[p], e, {})
        ELSE /\ Goto(p, IF session[p] # NULL THEN "sv_existing" ELSE "sv_insert",
                     pollId[p], optionIndex[p], session[p], formData[p],
                     IF inBounds THEN {"bounds"} ELSE {})
             /\ UNCHANGED wrote
  /\ UNCHANGED <<tables, rateLimitStore, clock, direct, rlLog, calls>>

\* submitVote never finding an earlier vote
ExistingVote_None(table, id, u) == {}

\* select("id").eq("poll_id", ..).eq("user_id", ..).single(): data is the
\* row when exactly one row matches, null otherwise.
ExistingVote(table, id, u) ==
  IF CountVotes(table, VotesOf(table, id, u)) = 1 THEN VotesOf(table, id, u) ELSE {}

SubmitVoteExisting(p) ==
  /\ pc[p] = "sv_existing"
  /\ IF ExistingVote(votes, pollId[p], session[p]) # {}
     THEN Return(p, "submitVote", pollId[p], session[p], "You have already voted on this poll", {})
     ELSE /\ Goto(p, "sv_insert", pollId[p], optionIndex[p], session[p],
                  formData[p], {})
          /\ UNCHANGED wrote
  /\ UNCHANGED <<tables, rateLimitStore, clock, direct, rlLog, calls>>

SubmitVoteInsert(p) ==
  /\ pc[p] = "sv_insert"
  /\ votes' = InsertVote(votes, VoteRow(pollId[p], session[p], optionIndex[p]))
  /\ Return(p, "submitVote", pollId[p], session[p], NULL, {})
  /\ UNCHANGED <<polls, nextId, rateLimitStore, clock, direct, rlLog, calls>>

\* The call the invocation in slot p is waiting for (createClient, a query,
\* auth.getUser) throws `error`.
SubmitVoteThrows(p, error) ==
  /\ pc[p] \in {"sv_poll", "sv_existing", "sv_insert"}
  /\ Catch(p, "submitVote", pollId[p], session[p], error)
  /\ UNCHANGED <<tables, rateLimitStore, clock, direct, rlLog, calls>>

\* The query the invocation in slot p is waiting for resolves to
\* {data: null, error}: the poll lookup returns 'Poll not found', the lookup
\* of an earlier vote does not look at the error and goes on to the insert,
\* and the insert returns the sanitized error.
SubmitVoteFails(p, message) ==
  /\ pc[p] \in {"sv_poll", "sv_existing", "sv_insert"}
  /\ IF pc[p] = "sv_poll"
     THEN Return(p, "submitVote", pollId[p], session[p], "Poll not found", {})
     ELSE IF pc[p] = "sv_existing"
     THEN /\ Goto(p, "sv_insert", pollId[p], optionIndex[p], session[p],
                  formData[p], {})
          /\ UNCHANGED wrote
     ELSE Return(p, "submitVote", pollId[p], session[p], sanitizeError(message), {})
  /\ UNCHANGED <<tables, rateLimitStore, clock, direct, rlLog, calls>>

(* ------------------------------ deletePoll ----------------------------- *)

DeletePollCall(p, id, u) ==
  /\ Begin(p)
  /\ LET ownershipResult == requirePollOwnership(id, u, polls)
     IN IF ~ownershipResult.success
        THEN Return(p, "deletePoll", id, u, ownershipResult.error, {})
        ELSE /\ Goto(p, "dp_votes", id, 0, ownershipResult.user, NoForm,
                     {"validate", "authorize"})
             /\ UNCHANGED wrote
  /\ UNCHANGED <<tables, rateLimitStore, clock, direct, rlLog>>

\* Delete associated votes first (the result is not looked at)
DeletePollVotes(p) ==
  /\ pc[p] = "dp_votes"
  /\ votes' = DeleteVotes(votes, pollId[p])
  /\ pc' = [pc EXCEPT ![p] = "dp_poll"]
  /\ wrote' = [wrote EXCEPT ![p] = TRUE]
  /\ passed' = [passed EXCEPT ![p] =
                  IF VotesOfPoll(votes, pollId[p]) # {} THEN @ \cup {"removed"} ELSE @]
  /\ UNCHANGED <<polls, nextId, rateLimitStore, clock, direct, rlLog, calls, locals,
                 ret>>

DeletePollPoll(p) ==
  /\ pc[p] = "dp_poll"
  /\ polls' = DeleteOwnPollRow(polls, pollId[p], session[p])
  /\ ReturnWrite(p, "deletePoll", pollId[p], session[p], NULL, "/polls")
  /\ UNCHANGED <<votes, nextId, rateLimitStore, clock, direct, rlLog, calls>>

(* ------------------------------ updatePoll ----------------------------- *)

\* The early returns of updatePoll before the update.
updatePollGate(ownershipResult, validation) ==
  IF ~ownershipResult.success THEN ownershipResult.error
  ELSE IF ~validation.isValid THEN validation.error
  ELSE NULL

UpdatePollCall(p, id, u, form) ==
  /\ Begin(p)
  /\ LET ownershipResult == requirePollOwnership(id, u, polls)
         validation == validateCreatePoll(ReadForm(form))
         e == updatePollGate(ownershipResult, validation)
         stages == (IF ownershipResult.success THEN {"authorize"} ELSE {})
                   \cup (IF validation.isValid THEN {"validate"} ELSE {})
     IN IF e # NULL
        THEN Return(p, "updatePoll", id, u, e, {})
        ELSE /\ Goto(p, "up_update", id, 0, ownershipResult.user,
                     validation.sanitizedData, stages)
             /\ UNCHANGED wrote
  /\ UNCHANGED <<tables, rateLimitStore, clock, direct, rlLog>>

UpdatePollUpdate(p) ==
  /\ pc[p] = "up_update"
  /\ polls' = UpdateOwnPollRow(polls, pollId[p], session[p], formData[p])
  /\ ReturnWrite(p, "updatePoll", pollId[p], session[p], NULL, "/polls")
  /\ UNCHANGED <<votes, nextId, rateLimitStore, clock, direct, rlLog, calls>>

(* ---------------------------- adminDeletePoll -------------------------- *)

\* adminDeletePoll not looking at what requireAdmin returned
adminDeletePollGate_NoAdminCheck(adminResult, idValidation) ==
  IF ~idValidation.isValid THEN idValidation.error ELSE NULL

\* The early returns of adminDeletePoll before the deletes.
adminDeletePollGate(adminResult, idValidation) ==
  IF ~adminResult.success THEN adminResult.error
  ELSE IF ~idValidation.isValid THEN idValidation.error
  ELSE NULL

AdminDeletePollCall(p, id, u) ==
  /\ Begin(p)
  /\ LET adminResult == requireAdmin(u)
         idValidation == validatePollId(id)
         e == adminDeletePollGate(adminResult, idValidation)
         stages == (IF adminResult.success THEN {"authorize"} ELSE {})
                   \cup (IF idValidation.isValid THEN {"validate"} ELSE {})
     IN IF e # NULL
        THEN Return(p, "adminDeletePoll", id, u, e, {})
        ELSE /\ Goto(p, "ad_votes", id, 0, u, NoForm, stages)
             /\ UNCHANGED wrote
  /\ UNCHANGED <<tables, rateLimitStore, clock, direct, rlLog>>

AdminDeletePollVotes(p) ==
  /\ pc[p] = "ad_votes"
  /\ votes' = DeleteVotes(votes, pollId[p])
  /\ pc' = [pc EXCEPT ![p] = "ad_poll"]
  /\ wrote' = [wrote EXCEPT ![p] = TRUE]
  /\ passed' = [passed EXCEPT ![p] =
                  IF VotesOfPoll(votes, pollId[p]) # {} THEN @ \cup {"removed"} ELSE @]
  /\ UNCHANGED <<polls, nextId, rateLimitStore, clock, direct, rlLog, calls, locals,
                 ret>>

AdminDeletePollPoll(p) ==
  /\ pc[p] = "ad_poll"
  /\ polls' = DeletePollRow(polls, pollId[p])
  /\ ReturnWrite(p, "adminDeletePoll", pollId[p], session[p], NULL, "/admin")
  /\ UNCHANGED <<votes, nextId, rateLimitStore, clock, direct, rlLog, calls>>

(* ------------------------------ getAllPolls ---------------------------- *)

\* from("polls").select("*"): every row of the table
SelectAllPolls(table) == {table[id] : id \in DOMAIN table}

\* requireAdmin, then the select; {polls: [], error} when the gate refuses
getAllPolls(u, table) ==
  LET adminResult == requireAdmin(u)
  IN IF ~adminResult.success THEN [error |-> adminResult.error, data |-> {}]
     ELSE [error |-> NULL, data |-> SelectAllPolls(table)]

GetAllPollsCall(p, u) ==
  /\ Begin(p)
  /\ LET r == getAllPolls(u, polls)
     IN Return(p, "getAllPolls", BadId, u, r.error, r.data)
  /\ UNCHANGED <<tables, rateLimitStore, clock, direct, rlLog>>

(* ------------------------------ getPollById ---------------------------- *)

\* getPollById without the check of the id
getPollById_NoIdCheck(id, table) ==
  LET rows == SelectPoll(table, id)
  IN IF rows = {} THEN [error |-> sanitizeError(NoRowsError), data |-> {}]
     ELSE [error |-> NULL, data |-> rows]

getPollById(id, table) ==
  LET idValidation == validatePollId(id)
      rows == SelectPoll(table, id)
  IN IF ~idValidation.isValid THEN [error |-> idValidation.error, data |-> {}]
     ELSE IF rows = {} THEN [error |-> sanitizeError(NoRowsError), data |-> {}]
     ELSE [error |-> NULL, data |-> rows]

\* getPollById(id) called by a request of identity u: the handler does not
\* read the identity.
GetPollById(p, id, u) ==
  /\ Begin(p)
  /\ LET r == getPollById(id, polls)
     IN Return(p, "getPollById", id, u, r.error, r.data)
  /\ UNCHANGED <<tables, rateLimitStore, clock, direct, rlLog>>

(* --------------------------- login, register --------------------------- *)

Emails == {Email(u) : u \in Users}

\* What signInWithPassword and signUp resolve to: {error: null} or an error
\* with a message.
SignInResults == {NULL, "Invalid login credentials"}
SignUpResults == {NULL, "User already registered"}

\* authLog after a call of `action` for email; called says whether the call
\* reached the identity provider.
LogAuth(log, action, email, called) ==
  LET key == <<action, email>>
      old == IF key \in DOMAIN log THEN log[key] ELSE [n |-> 0, idp |-> 0]
      entry == [n |-> old.n + 1, idp |-> old.idp + (IF called THEN 1 ELSE 0)]
  IN [k \in DOMAIN log \cup {key} |-> IF k = key THEN entry ELSE log[k]]

\* login(data): createClient(), signInWithPassword, and the return of the
\* sanitized error or of null. The email is not validated and no rate check
\* is made.
LoginCall(p, email, error) ==
  /\ Begin(p)
  /\ authLog' = LogAuth(authLog, "login", email, TRUE)
  /\ Return(p, "login", BadId, email,
            IF error # NULL THEN sanitizeError(error) ELSE NULL, {})
  /\ UNCHANGED <<tables, rateLimitStore, clock, rlArgs, input, output, rlLog>>

\* register(data): createClient(), signUp, and the return.
RegisterCall(p, email, error) ==
  /\ Begin(p)
  /\ authLog' = LogAuth(authLog, "register", email, TRUE)
  /\ Return(p, "register", BadId, email,
            IF error # NULL THEN sanitizeError(error) ELSE NULL, {})
  /\ UNCHANGED <<tables, rateLimitStore, clock, rlArgs, input, output, rlLog>>

\* login(data) of the other copy of the auth actions (part_000): the email
\* and password checks, which the addresses of the model pass,
\* signInWithPassword, and the return of error.message as it is or of null.
Part000LoginCall(p, email, error) ==
  /\ Begin(p)
  /\ authLog' = LogAuth(authLog, "login", email, TRUE)
  /\ Return(p, "login", BadId, email, error, {})
  /\ UNCHANGED <<tables, rateLimitStore, clock, rlArgs, input, output, rlLog>>

\* logout() of part_000: signOut, and the return of error.message or of null
Part000LogoutCall(p, u, error) ==
  /\ Begin(p)
  /\ Return(p, "logout", BadId, u, error, {})
  /\ UNCHANGED <<tables, rateLimitStore, clock, direct, rlLog>>

\* login(data) when createClient or signInWithPassword throws `error`
LoginThrows(p, email, error) ==
  /\ Begin(p)
  /\ authLog' = LogAuth(authLog, "login", email, TRUE)
  /\ Catch(p, "login", BadId, email, error)
  /\ UNCHANGED <<tables, rateLimitStore, clock, rlArgs, input, output, rlLog>>

\* logout(): createClient(), signOut, and the return of the sanitized error
\* or of null
LogoutCall(p, u, error) ==
  /\ Begin(p)
  /\ Return(p, "logout", BadId, u,
            IF error # NULL THEN sanitizeError(error) ELSE NULL, {})
  /\ UNCHANGED <<tables, rateLimitStore, clock, direct, rlLog>>

\* logout() when createClient or signOut throws `error`
LogoutThrows(p, u, error) ==
  /\ Begin(p)
  /\ Catch(p, "logout", BadId, u, error)
  /\ UNCHANGED <<tables, rateLimitStore, clock, direct, rlLog>>

(* ------------------------------- the clock ----------------------------- *)

\* A millisecond passes.
Tick ==
  /\ ticks < MaxTicks
  /\ ticks' = ticks + 1
  /\ now' = now + 1
  /\ UNCHANGED <<tables, rateLimitStore, calls, pc, locals, passed, wrote, ret,
                 direct, rlLog>>

(* ------------------- checkRateLimit called on its own ------------------ *)

\* The keys, limits and windows (in ms) the direct calls use.
RlKeys == {<<"test_user", 1>>, <<"test_user", 2>>}
RlLimits == 1..MaxLimit
RlWindows == 1..MaxWindow

\* checkRateLimit(key, rlArgs.maxRequests, rlArgs.windowMs)
CheckRateLimitCall(key) ==
  /\ calls > 0
  /\ calls' = calls - 1
  /\ LET rl == checkRateLimit(rateLimitStore, key, rlArgs.maxRequests,
                              rlArgs.windowMs, now)
     IN /\ rateLimitStore' = rl.store
        /\ rlLog' = LogCall(rlLog, key, rlArgs.windowMs, now, rl.allowed)
  /\ UNCHANGED <<tables, clock, pc, locals, passed, wrote, ret, direct>>

InitRL ==
  /\ Start(MaxRlCalls)
  /\ rlArgs \in [maxRequests : RlLimits, windowMs : RlWindows]

NextRL ==
  \/ \E key \in RlKeys : CheckRateLimitCall(key)
  \/ Tick

SpecRL == InitRL /\ [][NextRL]_vars

(* --------------------------- the specification ------------------------- *)

Next ==
  \/ \E p \in Procs, u \in Sessions, form \in FormInputs : CreatePollCall(p, u, form)
  \/ \E p \in Procs : CreatePollInsert(p)
  \/ \E p \in Procs, id \in IdInputs, opt \in OptionIndexInputs, u \in Sessions :
       SubmitVoteCall(p, id, opt, u)
  \/ \E p \in Procs : SubmitVotePoll(p)
  \/ \E p \in Procs : SubmitVoteExisting(p)
  \/ \E p \in Procs : SubmitVoteInsert(p)
  \/ \E p \in Procs, id \in IdInputs, u \in Sessions : DeletePollCall(p, id, u)
  \/ \E p \in Procs : DeletePollVotes(p)
  \/ \E p \in Procs : DeletePollPoll(p)
  \/ \E p \in Procs, id \in IdInputs, u \in Sessions, form \in FormInputs :
       UpdatePollCall(p, id, u, form)
  \/ \E p \in Procs : UpdatePollUpdate(p)
  \/ \E p \in Procs, id \in IdInputs, u \in Sessions : AdminDeletePollCall(p, id, u)
  \/ \E p \in Procs : AdminDeletePollVotes(p)
  \/ \E p \in Procs : AdminDeletePollPoll(p)
  \/ \E p \in Procs, id \in IdInputs, u \in Sessions : GetPollById(p, id, u)

Spec == Init /\ [][Next]_vars

(* ------------------------- handlers one at a time ---------------------- *)

\* No invocation is in progress.
AllIdle == \A p \in Procs : pc[p] = "idle"

InitSeq ==
  /\ Start(MaxSeqCalls)
  /\ rlArgs = [maxRequests |-> 1, windowMs |-> 1]

\* Each invocation runs to its return before the next one starts.
NextSeq ==
  \/ \E p \in Procs, u \in Sessions, form \in FormInputs :
       AllIdle /\ CreatePollCall(p, u, form)
  \/ \E p \in Procs : CreatePollInsert(p)
  \/ \E p \in Procs, id \in IdInputs, opt \in OptionIndexInputs, u \in Sessions :
       AllIdle /\ SubmitVoteCall(p, id, opt, u)
  \/ \E p \in Procs : SubmitVotePoll(p)
  \/ \E p \in Procs : SubmitVoteExisting(p)
  \/ \E p \in Procs : SubmitVoteInsert(p)
  \/ \E p \in Procs, id \in IdInputs, u \in Sessions :
       AllIdle /\ DeletePollCall(p, id, u)
  \/ \E p \in Procs : DeletePollVotes(p)
  \/ \E p \in Procs : DeletePollPoll(p)
  \/ \E p \in Procs, id \in IdInputs, u \in Sessions, form \in FormInputs :
       AllIdle /\ UpdatePollCall(p, id, u, form)
  \/ \E p \in Procs : UpdatePollUpdate(p)
  \/ \E p \in Procs, id \in IdInputs, u \in Sessions :
       AllIdle /\ AdminDeletePollCall(p, id, u)
  \/ \E p \in Procs : AdminDeletePollVotes(p)
  \/ \E p \in Procs : AdminDeletePollPoll(p)
  \/ \E p \in Procs, id \in IdInputs, u \in Sessions :
       AllIdle /\ GetPollById(p, id, u)

SpecSeq == InitSeq /\ [][NextSeq]_vars

(* ------------------------- a server under load ------------------------ *)

\* The state left by eight createPoll requests without a session, u1's
\* createPoll of a two-option poll and four anonymous votes for its first
\* option, all served one after the other at time 0: the next vote on the
\* poll is the last its window allows, the next createPoll likewise.
InitBusy ==
  /\ polls = InsertPoll(EmptyFn, 1, "u1", [question |-> QColor, options |-> <<Red, Blue>>])
  /\ votes = [v \in {VoteRow(1, NULL, 0)} |-> VoteMaxRequests - 1]
  /\ nextId = 1
  /\ rateLimitStore =
       [k \in {VoteKey(1), CreatePollKey(ClientIP)} |->
          IF k = VoteKey(1)
          THEN [count |-> VoteMaxRequests - 1, resetTime |-> VoteWindowMs]
          ELSE [count |-> CreateMaxRequests - 1, resetTime |-> CreateWindowMs]]
  /\ now = 0
  /\ ticks = 0
  /\ calls = MaxCalls
  /\ pc = [p \in Procs |-> "idle"]
  /\ pollId = [p \in Procs |-> BadId]
  /\ optionIndex = [p \in Procs |-> 0]
  /\ session = [p \in Procs |-> NULL]
  /\ formData = [p \in Procs |-> NoForm]
  /\ passed = [p \in Procs |-> {}]
  /\ wrote = [p \in Procs |-> FALSE]
  /\ ret = [op |-> "submitVote", id |-> 1, session |-> NULL, error |-> NULL,
            form |-> NoForm, rejected |-> FALSE, revalidated |-> NULL,
            data |-> {}]
  /\ rlArgs = [maxRequests |-> 1, windowMs |-> 1]
  /\ rlLog =
       [k \in {VoteKey(1), CreatePollKey(ClientIP)} |->
          [first |-> 0, last |-> TRUE, runs |-> 1,
           n |-> IF k = VoteKey(1) THEN VoteMaxRequests - 1
                 ELSE CreateMaxRequests - 1]]
  /\ input = NoForm
  /\ output = NoOutput
  /\ authLog = EmptyFn

SpecBusy == InitBusy /\ [][Next]_vars

(* --------------------------- createPoll alone -------------------------- *)

InitCreate ==
  /\ Start(MaxCreateCalls)
  /\ rlArgs = [maxRequests |-> 1, windowMs |-> 1]

\* createPoll invocations, concurrent, from one client address
NextCreate ==
  \/ \E p \in Procs, u \in Sessions, form \in FormInputs : CreatePollCall(p, u, form)
  \/ \E p \in Procs : CreatePollInsert(p)
  \/ Tick

SpecCreate == InitCreate /\ [][NextCreate]_vars

(* ------------------- validateCreatePoll called on its own -------------- *)

\* "javajavascript:script:"
NestedJs == <<"j","a","v","a">> \o JsProtocol \o <<"s","c","r","i","p","t",":">>

\* The strings the options are drawn from: two plain ones, one that
\* sanitizes to a plain one, one with a nested javascript:, an empty one,
\* and one whose angle bracket is followed by a blank.
InputOptions ==
  {Red, Blue, <<"<">> \o Red, NestedJs, <<>>, <<"<", " ", "a">>}

InputQuestions == {QColor, <<>>, <<" ">> \o QColor \o <<" ">>}

\* n distinct options
ManyOptions(n) == [i \in 1..n |-> [j \in 1..i |-> "x"]]

\* The data validateCreatePoll is called with: every question with every
\* sequence of up to MaxInputOptions options, and the data at the limit
\* of the number of options.
ValidateInputs ==
  [question : InputQuestions,
   options : UNION {[1..n -> InputOptions] : n \in 0..MaxInputOptions}]
  \cup {[question |-> QColor, options |-> ManyOptions(MaxOptions)],
        [question |-> QColor, options |-> ManyOptions(MaxOptions + 1)]}

\* output = validateCreatePoll(input)
ValidateCreatePollCall ==
  /\ calls > 0
  /\ calls' = calls - 1
  /\ output' = validateCreatePoll(input)
  /\ UNCHANGED <<tables, rateLimitStore, clock, pc, locals, passed, wrote, ret,
                 rlArgs, rlLog, input, authLog>>

InitValidate ==
  /\ polls = EmptyFn
  /\ votes = EmptyFn
  /\ nextId = 0
  /\ rateLimitStore = EmptyFn
  /\ now = 0
  /\ ticks = 0
  /\ calls = 1
  /\ pc = [p \in Procs |-> "idle"]
  /\ pollId = [p \in Procs |-> BadId]
  /\ optionIndex = [p \in Procs |-> 0]
  /\ session = [p \in Procs |-> NULL]
  /\ formData = [p \in Procs |-> NoForm]
  /\ passed = [p \in Procs |-> {}]
  /\ wrote = [p \in Procs |-> FALSE]
  /\ ret = NoRet
  /\ rlArgs = [maxRequests |-> 1, windowMs |-> 1]
  /\ rlLog = EmptyFn
  /\ input \in ValidateInputs
  /\ output = NoOutput
  /\ authLog = EmptyFn

NextValidate == ValidateCreatePollCall

SpecValidate == InitValidate /\ [][NextValidate]_vars

(* ---------------------- createPoll and updatePoll --------------------- *)

\* The forms of FormInputs and one whose two options differ as submitted and
\* sanitize to the same string.
StoreFormInputs ==
  FormInputs \cup {[question |-> QColor, options |-> <<Red, <<"<">> \o Red>>]}

NextStore ==
  \/ \E p \in Procs, u \in Sessions, form \in StoreFormInputs :
       CreatePollCall(p, u, form)
  \/ \E p \in Procs : CreatePollInsert(p)
  \/ \E p \in Procs, id \in IdInputs, u \in Sessions, form \in StoreFormInputs :
       UpdatePollCall(p, id, u, form)
  \/ \E p \in Procs : UpdatePollUpdate(p)

SpecStore == Init /\ [][NextStore]_vars

(* ---------------------- requireAdmin called on its own ----------------- *)

\* The values of process.env.ADMIN_EMAIL: unset, or a string of up to
\* MaxEnvLen addresses and commas (the empty string among them).
AdminEnvs ==
  {[set |-> FALSE, value |-> <<>>]}
  \cup {[set |-> TRUE, value |-> v] :
          v \in UNION {[1..n -> Emails \cup {","}] : n \in 0..MaxEnvLen}}

\* output = requireAdmin() of the caller input.session under input.env
RequireAdminCall ==
  /\ calls > 0
  /\ calls' = calls - 1
  /\ output' = requireAdminEnv(input.env, input.session)
  /\ UNCHANGED <<tables, rateLimitStore, clock, pc, locals, passed, wrote, ret,
                 rlArgs, rlLog, input, authLog>>

InitAdmin ==
  /\ polls = EmptyFn
  /\ votes = EmptyFn
  /\ nextId = 0
  /\ rateLimitStore = EmptyFn
  /\ now = 0
  /\ ticks = 0
  /\ calls = 1
  /\ pc = [p \in Procs |-> "idle"]
  /\ pollId = [p \in Procs |-> BadId]
  /\ optionIndex = [p \in Procs |-> 0]
  /\ session = [p \in Procs |-> NULL]
  /\ formData = [p \in Procs |-> NoForm]
  /\ passed = [p \in Procs |-> {}]
  /\ wrote = [p \in Procs |-> FALSE]
  /\ ret = NoRet
  /\ rlArgs = [maxRequests |-> 1, windowMs |-> 1]
  /\ rlLog = EmptyFn
  /\ input \in [env : AdminEnvs, session : Sessions]
  /\ output = NoOutput
  /\ authLog = EmptyFn

NextAdmin == RequireAdminCall

SpecAdmin == InitAdmin /\ [][NextAdmin]_vars

(* ---------------------------- the admin handlers ---------------------- *)

\* createPoll and submitVote, which fill the tables, with adminDeletePoll
\* and getAllPolls
NextAdminOps ==
  \/ \E p \in Procs, u \in Sessions, form \in FormInputs : CreatePollCall(p, u, form)
  \/ \E p \in Procs : CreatePollInsert(p)
  \/ \E p \in Procs, id \in IdInputs, opt \in OptionIndexInputs, u \in Sessions :
       SubmitVoteCall(p, id, opt, u)
  \/ \E p \in Procs : SubmitVotePoll(p)
  \/ \E p \in Procs : SubmitVoteExisting(p)
  \/ \E p \in Procs : SubmitVoteInsert(p)
  \/ \E p \in Procs, id \in IdInputs, u \in Sessions : AdminDeletePollCall(p, id, u)
  \/ \E p \in Procs : AdminDeletePollVotes(p)
  \/ \E p \in Procs : AdminDeletePollPoll(p)
  \/ \E p \in Procs, u \in Sessions : GetAllPollsCall(p, u)

SpecAdminOps == Init /\ [][NextAdminOps]_vars

(* ------------------------- login and register -------------------------- *)

InitAuth ==
  /\ Start(MaxAuthCalls)
  /\ rlArgs = [maxRequests |-> 1, windowMs |-> 1]

NextAuth ==
  \/ \E p \in Procs, email \in Emails, error \in SignInResults :
       LoginCall(p, email, error)
  \/ \E p \in Procs, email \in Emails, error \in SignUpResults :
       RegisterCall(p, email, error)
  \/ Tick

SpecAuth == InitAuth /\ [][NextAuth]_vars

(* --------------------------- submitVote alone -------------------------- *)

\* The state left by u1's createPoll of a two-option poll at time 0.
VoteStart(budget) ==
  /\ polls = InsertPoll(EmptyFn, 1, "u1", [question |-> QColor, options |-> <<Red, Blue>>])
  /\ votes = EmptyFn
  /\ nextId = 1
  /\ rateLimitStore =
       [k \in {CreatePollKey(ClientIP)} |-> [count |-> 1, resetTime |-> CreateWindowMs]]
  /\ now = 0
  /\ ticks = 0
  /\ calls = budget
  /\ pc = [p \in Procs |-> "idle"]
  /\ pollId = [p \in Procs |-> BadId]
  /\ optionIndex = [p \in Procs |-> 0]
  /\ session = [p \in Procs |-> NULL]
  /\ formData = [p \in Procs |-> NoForm]
  /\ passed = [p \in Procs |-> {}]
  /\ wrote = [p \in Procs |-> FALSE]
  /\ ret = [op |-> "createPoll", id |-> BadId, session |-> "u1", error |-> NULL,
            form |-> NoForm, rejected |-> FALSE, revalidated |-> "/polls",
            data |-> {}]
  /\ rlArgs = [maxRequests |-> 1, windowMs |-> 1]
  /\ rlLog =
       [k \in {CreatePollKey(ClientIP)} |->
          [first |-> 0, n |-> 1, last |-> TRUE, runs |-> 1]]
  /\ input = NoForm
  /\ output = NoOutput
  /\ authLog = EmptyFn

InitVote == VoteStart(MaxVoteCalls)

\* The callers and option indexes of SpecVote: an anonymous caller and u1,
\* the poll's first option and an index it does not have.
Voters == {NULL, "u1"}
VoteOptionInputs == {0, 2}

\* submitVote invocations, concurrent, on the stored poll and on a poll id
\* that is not stored
NextVote ==
  \/ \E p \in Procs, id \in PollIds, opt \in VoteOptionInputs, u \in Voters :
       SubmitVoteCall(p, id, opt, u)
  \/ \E p \in Procs : SubmitVotePoll(p)
  \/ \E p \in Procs : SubmitVoteExisting(p)
  \/ \E p \in Procs : SubmitVoteInsert(p)
  \/ Tick

SpecVote == InitVote /\ [][NextVote]_vars

(* ----------------------- the store and the provider fail -------------- *)

\* Messages of the errors the store and the identity provider resolve to.
StoreErrors == {DuplicateKeyError, ForeignKeyError, "fetch failed"}

InitFault == VoteStart(MaxCalls)

\* submitVote, login and logout (both copies of the last two) with calls
\* that answer, calls that resolve to an error and calls that throw
NextFault ==
  \/ \E p \in Procs, id \in PollIds, opt \in VoteOptionInputs, u \in Voters :
       SubmitVoteCall(p, id, opt, u)
  \/ \E p \in Procs : SubmitVotePoll(p)
  \/ \E p \in Procs : SubmitVoteExisting(p)
  \/ \E p \in Procs : SubmitVoteInsert(p)
  \/ \E p \in Procs, message \in StoreErrors : SubmitVoteFails(p, message)
  \/ \E p \in Procs, error \in ThrownValues : SubmitVoteThrows(p, error)
  \/ \E p \in Procs, email \in Emails, error \in SignInResults :
       LoginCall(p, email, error)
  \/ \E p \in Procs, email \in Emails, error \in ThrownValues :
       LoginThrows(p, email, error)
  \/ \E p \in Procs, u \in Sessions, error \in {NULL, "fetch failed"} :
       LogoutCall(p, u, error)
  \/ \E p \in Procs, u \in Sessions, error \in ThrownValues :
       LogoutThrows(p, u, error)
  \/ \E p \in Procs, email \in Emails, error \in SignInResults :
       Part000LoginCall(p, email, error)
  \/ \E p \in Procs, u \in Sessions, error \in {NULL, "fetch failed"} :
       Part000LogoutCall(p, u, error)

SpecFault == InitFault /\ [][NextFault]_vars

(* --------------------- the writes of the handlers fail ---------------- *)

\* The insert of the createPoll in slot p resolves to an error.
CreatePollFails(p, message) ==
  /\ pc[p] = "cp_insert"
  /\ ReturnWrite(p, "createPoll", BadId, session[p], message, "/polls")
  /\ UNCHANGED <<tables, rateLimitStore, clock, direct, rlLog, calls>>

\* The update of the updatePoll in slot p resolves to an error.
UpdatePollFails(p, message) ==
  /\ pc[p] = "up_update"
  /\ ReturnWrite(p, "updatePoll", pollId[p], session[p], message, "/polls")
  /\ UNCHANGED <<tables, rateLimitStore, clock, direct, rlLog, calls>>

\* The delete the deletePoll in slot p is waiting for resolves to an error
\* and removes nothing: the handler does not look at the result of the votes
\* delete and goes on to the poll delete, whose error it returns.
DeletePollFails(p, message) ==
  /\ pc[p] \in {"dp_votes", "dp_poll"}
  /\ IF pc[p] = "dp_votes"
     THEN /\ pc' = [pc EXCEPT ![p] = "dp_poll"]
          /\ wrote' = [wrote EXCEPT ![p] = TRUE]
          /\ UNCHANGED <<locals, passed, ret>>
     ELSE ReturnWrite(p, "deletePoll", pollId[p], session[p], message, "/polls")
  /\ UNCHANGED <<tables, rateLimitStore, clock, direct, rlLog, calls>>

\* The same for the adminDeletePoll in slot p.
AdminDeletePollFails(p, message) ==
  /\ pc[p] \in {"ad_votes", "ad_poll"}
  /\ IF pc[p] = "ad_votes"
     THEN /\ pc' = [pc EXCEPT ![p] = "ad_poll"]
          /\ wrote' = [wrote EXCEPT ![p] = TRUE]
          /\ UNCHANGED <<locals, passed, ret>>
     ELSE ReturnWrite(p, "adminDeletePoll", pollId[p], session[p], message, "/admin")
  /\ UNCHANGED <<tables, rateLimitStore, clock, direct, rlLog, calls>>

\* The handler whose steps have the label pc
HandlerOf(label) ==
  IF label = "cp_insert" THEN "createPoll"
  ELSE IF label = "up_update" THEN "updatePoll"
  ELSE IF label \in {"dp_votes", "dp_poll"} THEN "deletePoll"
  ELSE "adminDeletePoll"

\* The call the invocation in slot p is waiting for (createClient or a
\* write) throws `error`: the catch block of the handler returns.
WriteThrows(p, error) ==
  /\ pc[p] \in {"cp_insert", "up_update", "dp_votes", "dp_poll", "ad_votes", "ad_poll"}
  /\ Catch(p, HandlerOf(pc[p]), pollId[p], session[p], error)
  /\ UNCHANGED <<tables, rateLimitStore, clock, direct, rlLog, calls>>

\* createPoll, updatePoll, deletePoll and adminDeletePoll, concurrent, with
\* writes that are applied, writes that resolve to an error and calls that
\* throw, on the server of InitBusy
NextWriteFault ==
  \/ \E p \in Procs, u \in Sessions, form \in FormInputs : CreatePollCall(p, u, form)
  \/ \E p \in Procs : CreatePollInsert(p)
  \/ \E p \in Procs, message \in StoreErrors : CreatePollFails(p, message)
  \/ \E p \in Procs, id \in IdInputs, u \in Sessions, form \in FormInputs :
       UpdatePollCall(p, id, u, form)
  \/ \E p \in Procs : UpdatePollUpdate(p)
  \/ \E p \in Procs, message \in StoreErrors : UpdatePollFails(p, message)
  \/ \E p \in Procs, id \in IdInputs, u \in Sessions : DeletePollCall(p, id, u)
  \/ \E p \in Procs : DeletePollVotes(p)
  \/ \E p \in Procs : DeletePollPoll(p)
  \/ \E p \in Procs, message \in StoreErrors : DeletePollFails(p, message)
  \/ \E p \in Procs, id \in IdInputs, u \in Sessions : AdminDeletePollCall(p, id, u)
  \/ \E p \in Procs : AdminDeletePollVotes(p)
  \/ \E p \in Procs : AdminDeletePollPoll(p)
  \/ \E p \in Procs, message \in StoreErrors : AdminDeletePollFails(p, message)
  \/ \E p \in Procs, error \in ThrownValues : WriteThrows(p, error)

SpecWriteFault == InitBusy /\ [][NextWriteFault]_vars

(* ------------------------------ API routes ----------------------------- *)

\* NextResponse.json(body, {status}) of `route`: the status, the error of the
\* body, the poll id of the request and the failure the store was made to
\* report to the request (NULL: none).
Response(route, id, status, error, fault) ==
  [route |-> route, id |-> id, status |-> status, error |-> error, fault |-> fault]

\* A request is served from its first statement to its response.
Respond(response) ==
  /\ \A p \in Procs : pc[p] = "idle"
  /\ calls > 0
  /\ calls' = calls - 1
  /\ output' = response
  /\ UNCHANGED <<pc, locals, passed, wrote, ret, clock, rlArgs, input, authLog>>

\* GET /api/polls/{id}; `fault` is the error the select reports besides the
\* one for no row
GetPollRoute(id, fault) ==
  LET idValidation == validatePollId(id)
      rows == SelectPoll(polls, id)
      error == IF fault # NULL THEN fault
               ELSE IF rows = {} THEN NoRowsError ELSE NULL
  IN /\ Respond(IF ~idValidation.isValid
                THEN Response("GET /polls/{id}", id, 400, idValidation.error, NULL)
                ELSE IF error # NULL
                     THEN Response("GET /polls/{id}", id, 404, sanitizeError(error), fault)
                ELSE Response("GET /polls/{id}", id, 200, NULL, NULL))
     /\ UNCHANGED <<tables, rateLimitStore, rlLog>>

\* DELETE /api/polls/{id}; `fault` is the error of the delete of the poll
DeletePollRoute(id, u, fault) ==
  LET ownershipResult == requirePollOwnership(id, u, polls)
  IN IF ~ownershipResult.success
     THEN /\ Respond(Response("DELETE /polls/{id}", id, 401, ownershipResult.error, NULL))
          /\ UNCHANGED <<tables, rateLimitStore, rlLog>>
     ELSE /\ votes' = DeleteVotes(votes, id)
          /\ IF fault # NULL
             THEN /\ Respond(Response("DELETE /polls/{id}", id, 500,
                                      sanitizeError(fault), fault))
                  /\ UNCHANGED polls
             ELSE /\ Respond(Response("DELETE /polls/{id}", id, 200, NULL, NULL))
                  /\ polls' = DeleteOwnPollRow(polls, id, ownershipResult.user)
          /\ UNCHANGED <<nextId, rateLimitStore, rlLog>>

\* PUT /api/polls/{id}; `fault` is the error of the update
PutPollRoute(id, u, form, fault) ==
  LET ownershipResult == requirePollOwnership(id, u, polls)
      validation == validateCreatePoll(ReadForm(form))
  IN /\ IF ~ownershipResult.success
        THEN /\ Respond(Response("PUT /polls/{id}", id, 401, ownershipResult.error, NULL))
             /\ UNCHANGED polls
        ELSE IF ~validation.isValid
             THEN /\ Respond(Response("PUT /polls/{id}", id, 400, validation.error, NULL))
                  /\ UNCHANGED polls
        ELSE IF fault # NULL
             THEN /\ Respond(Response("PUT /polls/{id}", id, 500,
                                      sanitizeError(fault), fault))
                  /\ UNCHANGED polls
        ELSE /\ Respond(Response("PUT /polls/{id}", id, 200, NULL, NULL))
             /\ polls' = UpdateOwnPollRow(polls, id, ownershipResult.user,
                                          validation.sanitizedData)
     /\ UNCHANGED <<votes, nextId, rateLimitStore, rlLog>>

\* POST /api/polls/{id}/vote; `fault` is the error of the insert
VoteRoute(id, opt, u, fault) ==
  LET rl == checkRateLimit(rateLimitStore, VoteKey(id),
                           VoteMaxRequests, VoteWindowMs, now)
      validation == validateVote(id, opt)
      rows == SelectPoll(polls, id)
      bounds == submitVoteBounds(rows, opt)
      existingVote == IF u # NULL THEN ExistingVote(votes, id, u) ELSE {}
  IN /\ rateLimitStore' = rl.store
     /\ rlLog' = LogCall(rlLog, VoteKey(id), VoteWindowMs, now, rl.allowed)
     /\ IF ~rl.allowed
        THEN /\ Respond(Response("POST /polls/{id}/vote", id, 429,
                                 "Too many votes. Please try again later.", NULL))
             /\ UNCHANGED votes
        ELSE IF ~validation.isValid
             THEN /\ Respond(Response("POST /polls/{id}/vote", id, 400,
                                      validation.error, NULL))
                  /\ UNCHANGED votes
        ELSE IF rows = {}
             THEN /\ Respond(Response("POST /polls/{id}/vote", id, 404,
                                      "Poll not found", NULL))
                  /\ UNCHANGED votes
        ELSE IF bounds # NULL
             THEN /\ Respond(Response("POST /polls/{id}/vote", id, 400, bounds, NULL))
                  /\ UNCHANGED votes
        ELSE IF existingVote # {}
             THEN /\ Respond(Response("POST /polls/{id}/vote", id, 409,
                                      "You have already voted on this poll", NULL))
                  /\ UNCHANGED votes
        ELSE IF fault # NULL
             THEN /\ Respond(Response("POST /polls/{id}/vote", id, 500,
                                      sanitizeError(fault), fault))
                  /\ UNCHANGED votes
        ELSE /\ Respond(Response("POST /polls/{id}/vote", id, 201, NULL, NULL))
             /\ votes' = InsertVote(votes, VoteRow(id, u, opt))
     /\ UNCHANGED <<polls, nextId>>

\* DELETE /api/polls/admin/{id}; `fault` is the error of the delete of the
\* poll
AdminDeletePollRoute(id, u, fault) ==
  LET adminResult == requireAdmin(u)
      idValidation == validatePollId(id)
  IN IF ~adminResult.success
     THEN /\ Respond(Response("DELETE /polls/admin/{id}", id, 401,
                              adminResult.error, NULL))
          /\ UNCHANGED <<tables, rateLimitStore, rlLog>>
     ELSE IF ~idValidation.isValid
          THEN /\ Respond(Response("DELETE /polls/admin/{id}", id, 400,
                                   idValidation.error, NULL))
               /\ UNCHANGED <<tables, rateLimitStore, rlLog>>
     ELSE /\ votes' = DeleteVotes(votes, id)
          /\ IF fault # NULL
             THEN /\ Respond(Response("DELETE /polls/admin/{id}", id, 500,
                                      sanitizeError(fault), fault))
                  /\ UNCHANGED polls
             ELSE /\ Respond(Response("DELETE /polls/admin/{id}", id, 200, NULL, NULL))
                  /\ polls' = DeletePollRow(polls, id)
          /\ UNCHANGED <<nextId, rateLimitStore, rlLog>>

\* POST /api/polls; `fault` is the error of the insert
CreatePollRoute(u, form, fault) ==
  LET rl == checkRateLimit(rateLimitStore, CreatePollKey(ClientIP),
                           CreateMaxRequests, CreateWindowMs, now)
      authResult == requireAuth(u)
      validation == validateCreatePoll(ReadForm(form))
  IN /\ rateLimitStore' = rl.store
     /\ rlLog' = LogCall(rlLog, CreatePollKey(ClientIP), CreateWindowMs, now,
                         rl.allowed)
     /\ IF ~rl.allowed
        THEN /\ Respond(Response("POST /polls", BadId, 429,
                                 "Too many requests. Please try again later.", NULL))
             /\ UNCHANGED <<polls, nextId>>
        ELSE IF ~authResult.success
             THEN /\ Respond(Response("POST /polls", BadId, 401, authResult.error, NULL))
                  /\ UNCHANGED <<polls, nextId>>
        ELSE IF ~validation.isValid
             THEN /\ Respond(Response("POST /polls", BadId, 400, validation.error, NULL))
                  /\ UNCHANGED <<polls, nextId>>
        ELSE IF fault # NULL
             THEN /\ Respond(Response("POST /polls", BadId, 500,
                                      sanitizeError(fault), fault))
                  /\ UNCHANGED <<polls, nextId>>
        ELSE /\ nextId < MaxPolls
             /\ Respond(Response("POST /polls", BadId, 201, NULL, NULL))
             /\ polls' = InsertPoll(polls, nextId + 1, authResult.user,
                                    validation.sanitizedData)
             /\ nextId' = nextId + 1
     /\ UNCHANGED votes

\* GET /api/polls; `fault` is the error of the select
GetPollsRoute(u, fault) ==
  LET authResult == requireAuth(u)
  IN /\ Respond(IF ~authResult.success
                THEN Response("GET /polls", BadId, 401, authResult.error, NULL)
                ELSE IF fault # NULL
                     THEN Response("GET /polls", BadId, 500, sanitizeError(fault), fault)
                ELSE Response("GET /polls", BadId, 200, NULL, NULL))
     /\ UNCHANGED <<tables, rateLimitStore, rlLog>>

\* GET /api/polls/admin; `fault` is the error of the select
AdminGetPollsRoute(u, fault) ==
  LET adminResult == requireAdmin(u)
  IN /\ Respond(IF ~adminResult.success
                THEN Response("GET /polls/admin", BadId, 401, adminResult.error, NULL)
                ELSE IF fault # NULL
                     THEN Response("GET /polls/admin", BadId, 500,
                                   sanitizeError(fault), fault)
                ELSE Response("GET /polls/admin", BadId, 200, NULL, NULL))
     /\ UNCHANGED <<tables, rateLimitStore, rlLog>>

\* What the store answers a request: NULL, or an upstream failure.
Faults == {NULL, "fetch failed"}

\* Requests to the routes, served one after the other by the server of
\* InitBusy.
NextRoutes ==
  \/ \E id \in IdInputs, fault \in Faults : GetPollRoute(id, fault)
  \/ \E id \in IdInputs, u \in Sessions, fault \in Faults : DeletePollRoute(id, u, fault)
  \/ \E id \in IdInputs, u \in Sessions, form \in FormInputs, fault \in Faults :
       PutPollRoute(id, u, form, fault)
  \/ \E id \in IdInputs, opt \in OptionIndexInputs, u \in Sessions, fault \in Faults :
       VoteRoute(id, opt, u, fault)
  \/ \E id \in IdInputs, u \in Sessions, fault \in Faults :
       AdminDeletePollRoute(id, u, fault)
  \/ \E u \in Sessions, form \in FormInputs, fault \in Faults :
       CreatePollRoute(u, form, fault)
  \/ \E u \in Sessions, fault \in Faults : GetPollsRoute(u, fault)
  \/ \E u \in Sessions, fault \in Faults : AdminGetPollsRoute(u, fault)

SpecRoutes == InitBusy /\ [][NextRoutes]_vars

(* ------------------------------- claims -------------------------------- *)

\* The step changes or removes the stored poll id, or removes votes of it.
PollChanged(id) == id \notin DOMAIN polls' \/ polls'[id] # polls[id]
VotesRemoved(id) ==
  \E v \in VotesOfPoll(votes, id) : v \notin DOMAIN votes' \/ votes'[v] < votes[v]

IsAdmin(u) == requireAdmin(u).success

\* C1: every step that changes or removes a stored poll, or removes votes of
\* it, is a step of an invocation on that poll whose caller is the poll's
\* owner or an admin.
C1_OnlyOwnerOrAdminMutates ==
  [][\A id \in DOMAIN polls :
       (PollChanged(id) \/ VotesRemoved(id)) =>
         \E p \in Procs :
           /\ pc[p] # "idle" /\ pc'[p] # pc[p]
           /\ pollId[p] = id
           /\ session[p] = polls[id].user_id \/ IsAdmin(session[p])]_vars

\* A caller who is neither the owner nor an admin was denied the deletion or
\* update of a1's poll: the poll and the vote cast on it are still stored.
C1_Witness ==
  /\ ret.op \in {"deletePoll", "updatePoll"}
  /\ ret.error = "Access denied"
  /\ ~IsAdmin(ret.session)
  /\ ret.id \in DOMAIN polls
  /\ polls[ret.id].user_id # ret.session
  /\ VotesOfPoll(votes, ret.id) # {}

\* C2: among the checkRateLimit(key, N, W) calls made within W of the first
\* one, exactly the first N return true and every later one returns false;
\* the first call after the window has elapsed returns true and starts a
\* new window with count 1.
C2_FirstNAllowed ==
  \A key \in DOMAIN rlLog :
    /\ rlLog[key].last = (rlLog[key].n <= rlArgs.maxRequests)
    /\ key \in DOMAIN rateLimitStore
    /\ rlLog[key].n = 1 =>
         rateLimitStore[key] =
           [count |-> 1, resetTime |-> rlLog[key].first + rlArgs.windowMs]

\* With N = 3: a window has elapsed, a second one was started, and its
\* fourth call was refused.
C2_Witness ==
  /\ rlArgs.maxRequests = 3
  /\ \E key \in DOMAIN rlLog :
       rlLog[key].runs = 2 /\ rlLog[key].n = 4 /\ ~rlLog[key].last

\* The handlers that start with requirePollOwnership, and the first failure
\* the claimed order of checks reports for poll id `id`, identity u and the
\* polls table (NULL: no failure).
GateOps == {"deletePoll", "updatePoll"}
C3_Outcome(id, u, table) ==
  IF id = BadId THEN "Invalid poll ID format"
  ELSE IF u = NULL THEN "Authentication required"
  ELSE IF id \notin DOMAIN table THEN "Poll not found"
  ELSE IF table[id].user_id # u THEN "Access denied"
  ELSE NULL
C3_Failures ==
  {"Invalid poll ID format", "Authentication required", "Poll not found",
   "Access denied"}

\* C3: requirePollOwnership reports the first failure in the order id format,
\* authentication, 'Poll not found', 'Access denied', and succeeds with the
\* caller otherwise: a deletePoll or updatePoll that returns at once returns
\* that failure for the polls table it read, and one that goes on to its
\* writes had none and carries the caller, who owns the poll.
C3_CheckOrder ==
  [][/\ (calls' # calls /\ pc' = pc /\ ret'.op \in GateOps) =>
          LET e == C3_Outcome(ret'.id, ret'.session, polls)
          IN IF e # NULL THEN ret'.error = e
             ELSE ret'.op = "updatePoll" /\ ret'.error \notin C3_Failures
     /\ \A p \in Procs :
          (pc[p] = "idle" /\ pc'[p] \in {"dp_votes", "up_update"}) =>
            /\ C3_Outcome(pollId'[p], session'[p], polls) = NULL
            /\ session'[p] = polls[pollId'[p]].user_id]_vars

\* An authenticated caller asked to delete a poll that is not stored, while
\* a poll of somebody else is, and was told 'Poll not found'.
C3_Witness ==
  /\ ret.op = "deletePoll"
  /\ ret.error = "Poll not found"
  /\ ret.session # NULL
  /\ ret.id \notin DOMAIN polls
  /\ \E id \in DOMAIN polls : polls[id].user_id # ret.session

\* The steps that write to the store, and the stages an invocation must
\* have passed to take each of them.
WritePcs ==
  {"cp_insert", "sv_insert", "dp_votes", "dp_poll", "up_update", "ad_votes",
   "ad_poll"}
Required(at) ==
  IF at = "cp_insert" THEN {"rate", "authorize", "validate"}
  ELSE IF at = "sv_insert" THEN {"rate", "validate", "bounds"}
  ELSE {"authorize", "validate"}

C5_SequentialOneVote ==
  /\ [](\A id \in PollIds, u \in Users :
          CountVotes(votes, VotesOf(votes, id, u)) <= 1)
  /\ [][\A p \in Procs :
          (pc[p] = "sv_existing" /\ pc'[p] # pc[p]
             /\ VotesOf(votes, pollId[p], session[p]) # {}) =>
            /\ pc'[p] = "idle"
            /\ ret'.error = "You have already voted on this poll"
            /\ votes' = votes]_vars

\* The user's second vote on the poll was refused; the first is stored.
C5_Witness ==
  /\ ret.op = "submitVote"
  /\ ret.error = "You have already voted on this poll"
  /\ ret.session \in Users
  /\ CountVotes(votes, VotesOf(votes, ret.id, ret.session)) = 1

\* C6: the insert of submitVote is a step of its own that looks at no
\* earlier vote: it adds a vote for its (poll, user) whatever votes are
\* stored by then, so two invocations that both passed the existing-vote
\* check both insert.
C6_InsertAfterCheckAlwaysInserts ==
  [][\A p \in Procs :
       (pc[p] = "sv_insert" /\ pc'[p] # pc[p]) =>
         CountVotes(votes', VotesOf(votes', pollId[p], session[p]))
           = CountVotes(votes, VotesOf(votes, pollId[p], session[p])) + 1]_vars

\* Two votes of one authenticated user on one poll are stored.
C6_Witness ==
  \E id \in DOMAIN polls, u \in Users :
    CountVotes(votes, VotesOf(votes, id, u)) = 2

\* C7: a vote inserted by submitVote on a stored poll has an option index
\* within the options the poll has when the vote is inserted.
C7_IndexValidAtInsert ==
  [][\A p \in Procs :
       (pc[p] = "sv_insert" /\ pc'[p] # pc[p] /\ pollId[p] \in DOMAIN polls) =>
         /\ optionIndex[p] >= 0
         /\ optionIndex[p] < Len(polls[pollId[p]].options)]_vars

\* The number of options of poll id, none when it is not stored.
OptionsLen(id) == IF id \in DOMAIN polls THEN Len(polls[id].options) ELSE 0

C9_NoOrphanedVotes ==
  /\ [](\A v \in DOMAIN votes : v.poll_id \in DOMAIN polls)
  /\ [][\A p \in Procs :
          (pc[p] \in {"dp_poll", "ad_poll"} /\ pc'[p] # pc[p]) => wrote[p]]_vars

\* C10: a deletePoll by an authenticated user who does not own the stored
\* poll returns 'Access denied' and changes nothing; once the owner's
\* deletePoll returns error null the poll is not stored and no vote on it
\* remains; getPollById of a poll that is not stored returns no poll and
\* an error.
C10_DeletePollOutcome ==
  [][/\ (calls' # calls /\ pc' = pc /\ ret'.op = "deletePoll"
            /\ ret'.session # NULL /\ ret'.id \in DOMAIN polls
            /\ polls[ret'.id].user_id # ret'.session) =>
          ret'.error = "Access denied" /\ tables' = tables
     /\ \A p \in Procs :
          (pc[p] = "dp_poll" /\ pc'[p] = "idle" /\ ret'.error = NULL) =>
            /\ pollId[p] \notin DOMAIN polls'
            /\ VotesOfPoll(votes', pollId[p]) = {}
     /\ (calls' # calls /\ pc' = pc /\ ret'.op = "getPollById"
            /\ ret'.id \notin DOMAIN polls) =>
          ret'.data = {} /\ ret'.error # NULL]_vars

\* The step holds a checkRateLimit call for key.
RateChecked(key) ==
  /\ key \in DOMAIN rlLog'
  /\ key \notin DOMAIN rlLog \/ rlLog'[key] # rlLog[key]

\* C11: of the createPoll calls one client address makes within the five
\* minutes after the first, the eleventh and later ones return the
\* rate-limited error at once and insert no poll, whatever the earlier calls
\* returned; the first ten are not refused by the rate limit.
C11_EleventhCreateRefused ==
  [][RateChecked(CreatePollKey(ClientIP)) =>
       IF rlLog'[CreatePollKey(ClientIP)].n > CreateMaxRequests
       THEN /\ pc' = pc
            /\ ret'.op = "createPoll"
            /\ ret'.error = "Too many requests. Please try again later."
            /\ tables' = tables
       ELSE ~(pc' = pc
              /\ ret'.error = "Too many requests. Please try again later.")]_vars

\* The eleventh createPoll of the window was refused, after calls of which
\* two had inserted a poll and one had failed (the one before it, or an
\* earlier one).
C11_Witness ==
  /\ ret.op = "createPoll"
  /\ ret.error = "Too many requests. Please try again later."
  /\ CreatePollKey(ClientIP) \in DOMAIN rlLog
  /\ rlLog[CreatePollKey(ClientIP)].n = CreateMaxRequests + 1
  /\ Cardinality(DOMAIN polls) = 2
  /\ now > 0

\* C12: of the submitVote calls made for one poll id within the minute after
\* the first, by whatever callers and whatever the earlier calls did, the
\* sixth and later ones return the too-many-votes error at once and insert
\* nothing; the first five are not refused by the rate limit.
C12_SixthVoteRefused ==
  [][\A id \in PollIds :
       RateChecked(VoteKey(id)) =>
         IF rlLog'[VoteKey(id)].n > VoteMaxRequests
         THEN /\ pc' = pc
              /\ ret'.op = "submitVote"
              /\ ret'.id = id
              /\ ret'.error = "Too many votes. Please try again later."
              /\ tables' = tables
         ELSE ~(pc' = pc
                /\ ret'.error = "Too many votes. Please try again later.")]_vars

\* The sixth submitVote for poll 1 was refused after five calls by both
\* callers of which only two inserted a vote.
C12_Witness ==
  /\ ret.op = "submitVote"
  /\ ret.id = 1
  /\ ret.error = "Too many votes. Please try again later."
  /\ VoteKey(1) \in DOMAIN rlLog
  /\ rlLog[VoteKey(1)].n = VoteMaxRequests + 1
  /\ CountVotes(votes, VotesOfPoll(votes, 1)) = 2
  /\ \E v \in VotesOfPoll(votes, 1) : v.user_id = "u1"
  /\ \E v \in VotesOfPoll(votes, 1) : v.user_id = NULL
  /\ now > 0

\* C13: within the window after the first call for an email, the calls of
\* login after the fifth and the calls of register after the third return
\* an error and do not reach the identity provider.
C13_AuthRateLimited ==
  [][\A email \in Emails :
       /\ (<<"login", email>> \in DOMAIN authLog
             /\ authLog'[<<"login", email>>] # authLog[<<"login", email>>]
             /\ authLog[<<"login", email>>].n >= LoginMaxRequests) =>
            /\ ret'.op = "login" /\ ret'.error # NULL
            /\ authLog'[<<"login", email>>].idp = authLog[<<"login", email>>].idp
       /\ (<<"register", email>> \in DOMAIN authLog
             /\ authLog'[<<"register", email>>] # authLog[<<"register", email>>]
             /\ authLog[<<"register", email>>].n >= RegisterMaxRequests) =>
            /\ ret'.op = "register" /\ ret'.error # NULL
            /\ authLog'[<<"register", email>>].idp
                 = authLog[<<"register", email>>].idp]_vars

\* The step is a createPoll invocation that returns before its insert.
CreatePollReturnsEarly ==
  calls' # calls /\ pc' = pc /\ ret'.op = "createPoll"

\* The rate check of the createPoll invocation of this step let it through.
CreatePollAllowed == rlLog'[CreatePollKey(ClientIP)].last

Validated == output # NoOutput

\* Two of the options sanitize to the same string.
SanitizedDuplicate(options) ==
  \E i, j \in 1..Len(options) :
    i # j /\ sanitizeString(options[i]) = sanitizeString(options[j])

\* C15: validateCreatePoll rejects data two of whose options sanitize to
\* the same string.
C15_DuplicateOptionsRejected ==
  (Validated /\ SanitizedDuplicate(input.options)) => ~output.isValid

\* C16: every stored poll has between 2 and 10 options, each of them
\* non-empty and left as it is by the sanitizer, and no two of them equal.
C16_StoredOptionsWellFormed ==
  \A id \in DOMAIN polls :
    LET options == polls[id].options
    IN /\ Len(options) >= MinOptions
       /\ Len(options) <= MaxOptions
       /\ \A i \in 1..Len(options) :
            options[i] # <<>> /\ sanitizeString(options[i]) = options[i]
       /\ \A i, j \in 1..Len(options) : i # j => options[i] # options[j]

\* pat occurs in s
Contains(s, pat) ==
  \E i \in 1..(Len(s) - Len(pat) + 1) : SubSeq(s, i, i + Len(pat) - 1) = pat

\* r is what the sanitizer made of x and has no angle bracket and no
\* "javascript:" in it.
CleanCopy(r, x) ==
  /\ r = sanitizeString(x)
  /\ \A i \in 1..Len(r) : r[i] \notin {"<", ">"}
  /\ ~Contains(r, JsProtocol)

\* C17: for data whose sanitized question has 1 to 500 characters and whose
\* 2 to 10 sanitized options have 1 to 200 characters each and differ from
\* one another, validateCreatePoll succeeds, and the question and every
\* option it returns is the sanitized input and contains no '<', no '>' and
\* no 'javascript:'.
C17_ValidDataSanitized ==
  (/\ Validated
   /\ createPollSchemaError(sanitizePollData(input)) = NULL
   /\ ~SanitizedDuplicate(input.options)) =>
    /\ output.isValid
    /\ CleanCopy(output.sanitizedData.question, input.question)
    /\ Len(output.sanitizedData.options) = Len(input.options)
    /\ \A i \in 1..Len(input.options) :
         CleanCopy(output.sanitizedData.options[i], input.options[i])

\* The admin list is unset or the empty string.
EmptyAllowList(env) == ~env.set \/ env.value = <<>>

\* email is one of the comma-separated entries of the admin list.
OnAllowList(env, email) ==
  /\ env.set
  /\ \E i \in 1..Len(env.value) :
       /\ env.value[i] = email
       /\ i = 1 \/ env.value[i - 1] = ","
       /\ i = Len(env.value) \/ env.value[i + 1] = ","

\* C18 as stated: with the admin list unset or empty, requireAdmin fails
\* with 'Admin access required' for every caller, signed in or not.
C18_AdminRequiredForEveryCaller ==
  (output # NoOutput /\ EmptyAllowList(input.env)) =>
    ~output.success /\ output.error = "Admin access required"

\* C18, amended: with the admin list unset or empty, requireAdmin fails for
\* every caller, with 'Authentication required' for a caller without a
\* session and with 'Admin access required' for a signed-in one; with any
\* list, it succeeds only for a signed-in caller whose email is an entry of
\* the list.
C18_RequireAdminFailsClosed ==
  output # NoOutput =>
    /\ EmptyAllowList(input.env) =>
         /\ ~output.success
         /\ output.error = IF input.session = NULL THEN "Authentication required"
                            ELSE "Admin access required"
    /\ output.success =>
         /\ input.session # NULL
         /\ output.user = input.session
         /\ OnAllowList(input.env, Email(input.session))

\* requireAdmin refused the signed-in a1 under an unset admin list.
C18_Witness ==
  /\ output # NoOutput
  /\ ~input.env.set
  /\ input.session = "a1"
  /\ ~output.success
  /\ output.error = "Admin access required"

\* C19: adminDeletePoll and getAllPolls called by a caller requireAdmin
\* refuses return the gate's error at once with both tables as they were
\* (getAllPolls with no rows); only an admin's adminDeletePoll of a
\* well-formed id reaches the deletes, which remove first every vote of the
\* poll and then the poll, whoever owns it, and nothing else; an admin's
\* getAllPolls returns every row and changes nothing.
C19_AdminHandlersGated ==
  [][/\ (calls' # calls /\ pc' = pc
            /\ ret'.op \in {"adminDeletePoll", "getAllPolls"}) =>
          /\ tables' = tables
          /\ ~requireAdmin(ret'.session).success =>
               /\ ret'.error = requireAdmin(ret'.session).error
               /\ ret'.data = {}
          /\ (requireAdmin(ret'.session).success /\ ret'.op = "getAllPolls") =>
               /\ ret'.error = NULL
               /\ ret'.data = {polls[id] : id \in DOMAIN polls}
     /\ \A p \in Procs :
          /\ pc'[p] \in {"ad_votes", "ad_poll"} =>
               requireAdmin(session'[p]).success /\ pollId'[p] # BadId
          /\ (pc[p] = "idle" /\ pc'[p] = "ad_votes") => tables' = tables
          /\ (pc[p] = "ad_votes" /\ pc'[p] = "ad_poll") =>
               /\ VotesOfPoll(votes', pollId[p]) = {}
               /\ \A v \in DOMAIN votes :
                    v.poll_id # pollId[p] =>
                      v \in DOMAIN votes' /\ votes'[v] = votes[v]
               /\ polls' = polls
          /\ (pc[p] = "ad_poll" /\ pc'[p] = "idle") =>
               /\ ret'.op = "adminDeletePoll" /\ ret'.error = NULL
               /\ pollId[p] \notin DOMAIN polls'
               /\ \A id \in DOMAIN polls :
                    id # pollId[p] => id \in DOMAIN polls' /\ polls'[id] = polls[id]
               /\ votes' = votes]_vars

\* The admin a1 is about to delete u1's poll 1, having deleted its votes,
\* after a vote on poll 1 was stored.
C19_Witness ==
  \E p \in Procs :
    /\ pc[p] = "ad_poll"
    /\ session[p] = "a1"
    /\ pollId[p] = 1
    /\ 1 \in DOMAIN polls
    /\ polls[1].user_id = "u1"
    /\ ret.op = "submitVote" /\ ret.id = 1 /\ ret.error = NULL
    /\ VotesOfPoll(votes, 1) = {}

\* C20: no invocation throws: whatever the store or the identity provider
\* answers or throws, the invocation resolves to a result object.
C20_NoHandlerThrows == ~ret.rejected

\* The messages of the errors of the store and of the identity provider.
BackendMessages == (StoreErrors \cup SignInResults \cup SignUpResults) \ {NULL}

\* C21: outside development no invocation returns the message of an error
\* of the store or of the identity provider.
C21_NoBackendText ==
  NODE_ENV # "development" => ret.error \notin BackendMessages

\* A route has responded.
Responded == "status" \in DOMAIN output

\* The messages of the validators and of the bounds check of the vote route.
ValidationMessages ==
  {"Invalid poll ID format", "Invalid option index", "Invalid option selected",
   "Question is required", "Question must be less than 500 characters",
   "At least 2 options are required", "Maximum 10 options allowed",
   "Option cannot be empty", "Option must be less than 200 characters"}

\* The status the kind of outcome of response r calls for.
StatusOfOutcome(r) ==
  IF r.error = NULL
  THEN (IF r.route \in {"POST /polls", "POST /polls/{id}/vote"} THEN 201 ELSE 200)
  ELSE IF r.error \in {"Too many requests. Please try again later.",
                       "Too many votes. Please try again later."} THEN 429
  ELSE IF r.error \in ValidationMessages THEN 400
  ELSE IF r.error \in {"Authentication required", "Access denied",
                       "Admin access required"} THEN 401
  ELSE IF r.error = "You have already voted on this poll" THEN 409
  ELSE IF r.fault # NULL THEN 500
  ELSE 404

\* C22: every response of a route carries the status of its kind of outcome:
\* 201 for a created poll or vote, 200 for another success, 400 for a
\* validation error (a malformed poll id included), 401 for a caller who is
\* not authenticated or not authorized, 404 for a poll that does not exist,
\* 409 for a duplicate vote, 429 for a rate-limited request and 500 for a
\* failure of the store.
C22_StatusMatchesOutcome ==
  Responded => output.status = StatusOfOutcome(output)

\* The step is the return of a getPollById invocation.
GetPollByIdReturns == calls' # calls /\ pc' = pc /\ ret'.op = "getPollById"

RowCount(table, row) == IF row \in DOMAIN table THEN table[row] ELSE 0

C25_VotesOnlyRemovedByDelete ==
  [][/\ \A v \in DOMAIN votes :
          RowCount(votes', v) # votes[v] =>
            \/ \E p \in Procs :
                 /\ pc[p] \in {"dp_votes", "ad_votes"} /\ pc'[p] # pc[p]
                 /\ pollId[p] = v.poll_id
                 /\ v \notin DOMAIN votes'
            \/ \E p \in Procs :
                 /\ pc[p] = "sv_insert" /\ pc'[p] = "idle"
                 /\ v = VoteRow(pollId[p], session[p], optionIndex[p])
                 /\ votes'[v] = votes[v] + 1
     /\ \A v \in DOMAIN votes' \ DOMAIN votes :
          \E p \in Procs : pc[p] = "sv_insert" /\ pc'[p] = "idle" /\ votes'[v] = 1]_vars

\* A deletePoll of poll 1 has removed the votes of the poll, one of them
\* stored by the submitVote that returned last.
C25_Witness ==
  \E p \in Procs :
    /\ pc[p] = "dp_poll"
    /\ pollId[p] = 1
    /\ ret.op = "submitVote" /\ ret.id = 1 /\ ret.error = NULL
    /\ VotesOfPoll(votes, 1) = {}

\* maxRequests of the handler that checks key
LimitOf(key) == IF key[1] = "vote" THEN VoteMaxRequests ELSE CreateMaxRequests

\* C26: with the handlers running concurrently no increment of a rate-limit
\* record is lost: for every key the stored count is the number of calls of
\* the current window that returned true, a call returns true only as one of
\* the first maxRequests calls of its window, and the stored count never
\* exceeds maxRequests.
C26_NoLostUpdate ==
  \A key \in DOMAIN rlLog :
    /\ key \in DOMAIN rateLimitStore
    /\ rateLimitStore[key].count <= LimitOf(key)
    /\ rateLimitStore[key].count =
         (IF rlLog[key].n <= LimitOf(key) THEN rlLog[key].n ELSE LimitOf(key))
    /\ rlLog[key].last => rlLog[key].n <= LimitOf(key)

\* While the submitVote that made the fifth call for poll 1 is still in
\* progress, a sixth call for the poll has been refused: the record counts
\* five.
C26_Witness ==
  /\ \E p \in Procs : pc[p] \in {"sv_poll", "sv_existing", "sv_insert"} /\ pollId[p] = 1
  /\ VoteKey(1) \in DOMAIN rlLog
  /\ rlLog[VoteKey(1)].n = VoteMaxRequests + 1
  /\ ~rlLog[VoteKey(1)].last
  /\ rateLimitStore[VoteKey(1)].count = VoteMaxRequests

\* C29: the window of a key is fixed. A checkRateLimit call changes no
\* record but the one of its key; the resetTime of a stored record changes
\* only in a call for its key made after that resetTime, which sets it to
\* the time of the call plus windowMs; a call that finds no record sets it
\* likewise; and no key ever leaves the store.
C29_FixedWindow ==
  [][/\ \A key \in DOMAIN rateLimitStore :
          /\ key \in DOMAIN rateLimitStore'
          /\ rateLimitStore'[key] # rateLimitStore[key] => RateChecked(key)
          /\ rateLimitStore'[key].resetTime # rateLimitStore[key].resetTime =>
               /\ now > rateLimitStore[key].resetTime
               /\ rateLimitStore'[key].resetTime = now + rlArgs.windowMs
          /\ (RateChecked(key) /\ now <= rateLimitStore[key].resetTime) =>
               rateLimitStore'[key].resetTime = rateLimitStore[key].resetTime
     /\ \A key \in DOMAIN rateLimitStore' \ DOMAIN rateLimitStore :
          /\ RateChecked(key)
          /\ rateLimitStore'[key].resetTime = now + rlArgs.windowMs]_vars

\* Time has passed since the first call for a key, whose window is still
\* open and has had both allowed calls and a refused one; its resetTime is
\* still the time of the first call plus windowMs, and a second key has a
\* record of its own.
C29_Witness ==
  \E key \in DOMAIN rateLimitStore :
    /\ rlLog[key].n > rlArgs.maxRequests
    /\ rlArgs.maxRequests > 1
    /\ ~rlLog[key].last
    /\ rlLog[key].runs = 1
    /\ now > rlLog[key].first
    /\ now <= rateLimitStore[key].resetTime
    /\ rateLimitStore[key].resetTime = rlLog[key].first + rlArgs.windowMs
    /\ \E other \in DOMAIN rateLimitStore : other # key

\* The handlers that write to the polls table.
PollWriters == {"createPoll", "updatePoll", "deletePoll", "adminDeletePoll"}

\* The invocation in slot p returns in this step, its write just answered.
ReturnsAfterWrite(p) ==
  pc[p] \in {"cp_insert", "up_update", "dp_poll", "ad_poll"} /\ pc'[p] = "idle"

\* The step is a return of an invocation of op.
Returns(op) ==
  /\ ret'.op = op
  /\ \/ calls' # calls /\ pc' = pc
     \/ \E p \in Procs : pc[p] # "idle" /\ pc'[p] = "idle"

\* C27: an invocation of createPoll, updatePoll, deletePoll or
\* adminDeletePoll signals stale caches (revalidatePath) exactly when it
\* returns error null, and then in the step in which its write to the polls
\* table was answered; an invocation that returns an error or throws does
\* not signal.
C27_RevalidateIffSuccess ==
  [][\A op \in PollWriters :
       Returns(op) =>
         /\ ret'.revalidated # NULL <=> (ret'.error = NULL /\ ~ret'.rejected)
         /\ ret'.revalidated # NULL =>
              \E p \in Procs : ReturnsAfterWrite(p) /\ HandlerOf(pc[p]) = op]_vars

\* An updatePoll has returned error null and has signalled /polls.
C27_Witness ==
  /\ ret.op = "updatePoll"
  /\ ret.error = NULL
  /\ ret.revalidated = "/polls"

\* C28: deletePoll and adminDeletePoll are all-or-nothing. An invocation of
\* either that returns an error has changed neither polls nor votes: it
\* has removed no vote and its returning step changes no table. One that
\* returns error null leaves no vote that references its poll, also when
\* one of its deletes was answered with an error.
C28_DeleteAllOrNothing ==
  [][\A p \in Procs :
       (pc[p] \in {"dp_votes", "dp_poll", "ad_votes", "ad_poll"} /\ pc'[p] = "idle") =>
         /\ ret'.error # NULL =>
              /\ "removed" \notin passed[p]
              /\ polls' = polls
              /\ votes' = votes
         /\ (ret'.error = NULL /\ ~ret'.rejected) =>
              VotesOfPoll(votes', pollId[p]) = {}]_vars

\* u is on the admin list and poll id is stored and belongs to someone else.
AdminNotOwner(u, id) ==
  /\ u # NULL
  /\ IsAdmin(u)
  /\ id \in DOMAIN polls
  /\ polls[id].user_id # u

\* C30: the ownership gate does not honour the admin role. An updatePoll or
\* deletePoll called by an admin on a stored poll of another user returns
\* 'Access denied' at once and changes no table, and never goes on to its
\* write; the only steps of an admin's invocation that change such a poll or
\* remove votes of it are those of adminDeletePoll.
C30_AdminNotOwnerDenied ==
  [][/\ (calls' # calls /\ pc' = pc /\ ret'.op \in {"updatePoll", "deletePoll"}
           /\ AdminNotOwner(ret'.session, ret'.id)) =>
          ret'.error = "Access denied" /\ tables' = tables
     /\ \A p \in Procs :
          (pc[p] = "idle" /\ pc'[p] \in {"up_update", "dp_votes"}) =>
            ~AdminNotOwner(session'[p], pollId'[p])
     /\ \A p \in Procs, id \in DOMAIN polls :
          (pc[p] # "idle" /\ pc'[p] # pc[p] /\ pollId[p] = id
             /\ AdminNotOwner(session[p], id)
             /\ (PollChanged(id) \/ VotesRemoved(id))) =>
            pc[p] \in {"ad_votes", "ad_poll"}]_vars

\* The admin a1 was refused the update of u1's poll, which is stored.
C30_Witness ==
  /\ ret.op = "updatePoll"
  /\ ret.session = "a1"
  /\ IsAdmin("a1")
  /\ ret.id \in DOMAIN polls
  /\ polls[ret.id].user_id = "u1"
  /\ ret.error = "Access denied"

====
